---- MODULE Spec2Model ----
(***************************************************************************)
(* The entitlement engine and access-key registry of the Terabox relay    *)
(* bot: UserDataManager, AccessKeyManager and the handlers that drive      *)
(* them (src/Qwen_python_20250919_oyitdj7hl.py), and the SQL-backed        *)
(* variant of the same checks (src/blackbox-output-code-NYU53DGBSS.py).    *)
(*                                                                         *)
(* Time is a counter of ticks, TicksPerDay ticks to a calendar day.        *)
(* Python's None is the empty tuple and a present value x is <<x>>; an     *)
(* ISO string of an instant is the 1-tuple of that instant, a "%Y-%m-%d"   *)
(* string the 1-tuple of the day number.                                   *)
(* Handlers are coroutines of one event loop: they interleave only at      *)
(* their await points, so every await-free stretch is one step.            *)
(***************************************************************************)
EXTENDS Integers, Sequences, FiniteSets, TLC

\* ---------------------------------------------------------------- bounds
MaxTime == 3
TicksPerDay == 2
MaxFreeLimit == 1
MaxDaily == 2
MaxKeys == 2
MaxAttempts == 2
MaxRuns == 2
MaxNameLen == 3

\* ------------------------------------------------------ program constants
ADMIN_USER_ID == 1
\* len(download_history) is cut back to this many entries (100 in the source)
HistoryCap == 2
\* DEFAULT_BOT_CONFIG["free_limit"] (5 in the source)
DefaultFreeLimit == 1
\* datetime.max: the last instant datetime arithmetic can represent
DatetimeMax == 12
\* DEFAULT_BOT_CONFIG["video_size_limit"], in MB (2000 in the source)
DefaultSizeLimit == 2
\* Bytes in one MB, the divisor of line 578 (1024 * 1024 in the source)
BytesPerMB == 2
\* DEFAULT_BOT_CONFIG["download_timeout"], in ticks (300 seconds in the source)
DefaultDownloadTimeout == 1

UserIds == {ADMIN_USER_ID, 2}
Tokens == 1..MaxKeys
\* a duration no datetime can hold: now + timedelta(days=HugeDays) overflows
HugeDays == DatetimeMax + 1
Durations == {0, 1, HugeDays}
FreeLimits == 0..MaxFreeLimit
Runs == 1..MaxRuns

None == <<>>
Some(x) == <<x>>

\* datetime.isoformat() / datetime.fromisoformat(): microsecond resolution
isoformat(t) == <<t>>
fromisoformat(s) == s[1]
\* datetime.strftime("%Y-%m-%d"): the calendar day of an instant
strftime_date(t) == <<t \div TicksPerDay>>
\* datetime.now() + timedelta(days=d); raises OverflowError past datetime.max
timedelta_overflows(t, d) == t + d * TicksPerDay > DatetimeMax
plus_days(t, d) == t + d * TicksPerDay

\* DEFAULT_BOT_CONFIG, with free_limit as given
DefaultConfig(free_limit) ==
  [free_limit |-> free_limit, video_size_limit |-> DefaultSizeLimit,
   download_timeout |-> DefaultDownloadTimeout]

\* ------------------------------------------------------- UserDataManager
DefaultUser ==
  [is_paid |-> FALSE, subscription_end |-> None, daily_downloads |-> 0,
   last_download_date |-> None, download_history |-> <<>>,
   access_key_used |-> None]

\* get_user: the record of u, created with the free-tier defaults if absent
get_user(us, u) == IF u \in DOMAIN us THEN us ELSE us @@ (u :> DefaultUser)

\* save_users: json.dump of the whole dict; an I/O error is logged and dropped
save_users(us, file, ok) == IF ok THEN us ELSE file

\* update_user_info: get_user, set the names, save_users
update_user_info(S, u, ok) ==
  LET us == get_user(S.users, u) IN
  [users |-> us, file |-> save_users(us, S.file, ok)]

\* is_paid_user: ret is the returned bool, dw the number of downgrade writes
is_paid_user_never_expires(S, u, t, ok) ==
  LET us == get_user(S.users, u) IN
  [users |-> us, file |-> S.file, ret |-> us[u].is_paid, dw |-> 0]

is_paid_user(S, u, t, ok) ==
  LET us == get_user(S.users, u)
      user == us[u]
      down == [us EXCEPT ![u].is_paid = FALSE, ![u].subscription_end = None]
  IN  IF ~user.is_paid
        THEN [users |-> us, file |-> S.file, ret |-> FALSE, dw |-> 0]
      ELSE IF user.subscription_end = None
        THEN [users |-> us, file |-> S.file, ret |-> TRUE, dw |-> 0]
      ELSE IF t < fromisoformat(user.subscription_end)
        THEN [users |-> us, file |-> S.file, ret |-> TRUE, dw |-> 0]
      ELSE [users |-> down, file |-> save_users(down, S.file, ok),
            ret |-> FALSE, dw |-> 1]

\* can_download: ret is the returned bool, msg the reason ("" when allowed),
\* paid what is_paid_user answered
can_download_le(S, u, t, free_limit, ok) ==
  LET p == is_paid_user([users |-> get_user(S.users, u), file |-> S.file], u, t, ok)
      today == strftime_date(t)
      us == IF p.users[u].last_download_date # today
              THEN [p.users EXCEPT ![u].daily_downloads = 0,
                                   ![u].last_download_date = today]
              ELSE p.users
  IN  IF p.ret
        THEN [users |-> p.users, file |-> p.file, ret |-> TRUE, msg |-> "",
              paid |-> TRUE, dw |-> p.dw]
      ELSE IF us[u].daily_downloads > free_limit
        THEN [users |-> us, file |-> p.file, ret |-> FALSE,
              msg |-> "Daily limit reached", paid |-> FALSE, dw |-> p.dw]
      ELSE [users |-> us, file |-> p.file, ret |-> TRUE, msg |-> "",
            paid |-> FALSE, dw |-> p.dw]

can_download(S, u, t, free_limit, ok) ==
  LET p == is_paid_user([users |-> get_user(S.users, u), file |-> S.file], u, t, ok)
      today == strftime_date(t)
      us == IF p.users[u].last_download_date # today
              THEN [p.users EXCEPT ![u].daily_downloads = 0,
                                   ![u].last_download_date = today]
              ELSE p.users
  IN  IF p.ret
        THEN [users |-> p.users, file |-> p.file, ret |-> TRUE, msg |-> "",
              paid |-> TRUE, dw |-> p.dw]
      ELSE IF us[u].daily_downloads >= free_limit
        THEN [users |-> us, file |-> p.file, ret |-> FALSE,
              msg |-> "Daily limit reached", paid |-> FALSE, dw |-> p.dw]
      ELSE [users |-> us, file |-> p.file, ret |-> TRUE, msg |-> "",
            paid |-> FALSE, dw |-> p.dw]

\* the first HistoryCap entries of a history
first_entries(h) == IF Len(h) > HistoryCap THEN SubSeq(h, 1, HistoryCap) ELSE h

\* the last HistoryCap entries of a history
last_entries(h) ==
  IF Len(h) > HistoryCap THEN SubSeq(h, Len(h) - HistoryCap + 1, Len(h)) ELSE h

\* increment_download_count appending the record without counting it
increment_download_count_uncounted(S, u, t, video_info, ok) ==
  LET us0 == get_user(S.users, u)
      rec == [video_info |-> video_info]
      us == [us0 EXCEPT ![u].download_history = last_entries(Append(@, rec))]
  IN  [users |-> us, file |-> save_users(us, S.file, ok)]

\* increment_download_count counting the download for every user on record
increment_download_count_everyone(S, u, t, video_info, ok) ==
  LET us0 == get_user(S.users, u)
      rec == [video_info |-> video_info]
      us == [v \in DOMAIN us0 |->
               IF v = u
                 THEN [us0[v] EXCEPT !.daily_downloads = @ + 1,
                                     !.download_history = last_entries(Append(@, rec))]
                 ELSE [us0[v] EXCEPT !.daily_downloads = @ + 1]]
  IN  [users |-> us, file |-> save_users(us, S.file, ok)]

\* increment_download_count: count, append the record (its timestamp left
\* out), trim, save_users
increment_download_count(S, u, t, video_info, ok) ==
  LET us0 == get_user(S.users, u)
      rec == [video_info |-> video_info]
      us == [us0 EXCEPT
               ![u].daily_downloads = @ + 1,
               ![u].download_history = last_entries(Append(@, rec))]
  IN  [users |-> us, file |-> save_users(us, S.file, ok)]

\* activate_subscription: raised when the end date overflows datetime, after
\* is_paid was set and before subscription_end, access_key_used and the save
activate_subscription_keep_end(S, u, t, duration_days, access_key, ok) ==
  LET us0 == get_user(S.users, u)
      us == [us0 EXCEPT ![u].is_paid = TRUE,
                        ![u].access_key_used = Some(access_key)]
  IN  [users |-> us, file |-> save_users(us, S.file, ok), raised |-> FALSE]

activate_subscription_from_zero(S, u, t, duration_days, access_key, ok) ==
  LET us0 == get_user(S.users, u)
      end == IF duration_days >= 0
               THEN isoformat(plus_days(t, duration_days))
               ELSE None
      us == [us0 EXCEPT ![u].is_paid = TRUE, ![u].subscription_end = end,
                        ![u].access_key_used = Some(access_key)]
  IN  [users |-> us, file |-> save_users(us, S.file, ok), raised |-> FALSE]

activate_subscription(S, u, t, duration_days, access_key, ok) ==
  LET us0 == get_user(S.users, u)
      us1 == [us0 EXCEPT ![u].is_paid = TRUE]
      end == IF duration_days > 0
               THEN isoformat(plus_days(t, duration_days))
               ELSE None
      us == [us1 EXCEPT ![u].subscription_end = end,
                        ![u].access_key_used = Some(access_key)]
  IN  IF duration_days > 0 /\ timedelta_overflows(t, duration_days)
        THEN [users |-> us1, file |-> S.file, raised |-> TRUE]
        ELSE [users |-> us, file |-> save_users(us, S.file, ok), raised |-> FALSE]

\* get_user_stats: is_paid_user is evaluated twice (lines 180 and 183)
get_user_stats(S, u, t, free_limit, ok) ==
  LET us == get_user(S.users, u)
      p1 == is_paid_user([users |-> us, file |-> S.file], u, t, ok)
      p2 == is_paid_user([users |-> p1.users, file |-> p1.file], u, t, ok)
      left == free_limit - us[u].daily_downloads
  IN  [users |-> p2.users, file |-> p2.file, dw |-> p1.dw + p2.dw,
       stats |-> [is_paid |-> p1.ret,
                  daily_downloads |-> us[u].daily_downloads,
                  free_limit |-> free_limit,
                  downloads_remaining |->
                    IF ~p2.ret THEN Some(IF left > 0 THEN left ELSE 0) ELSE None,
                  subscription_end |-> p2.users[u].subscription_end,
                  total_downloads |-> Len(us[u].download_history)]]

\* ------------------------------------------------------ AccessKeyManager
\* save_keys: json.dump of the whole dict; an I/O error is logged and dropped
save_keys(ks, file, ok) == IF ok THEN ks ELSE file

\* generate_key: a fresh token (secrets.token_urlsafe) mapped to an unused key
generate_key(K, token, duration_days, t, ok) ==
  LET ks == (token :> [duration_days |-> duration_days,
                       used_by |-> None, used_at |-> None]) @@ K.keys
  IN  [keys |-> ks, file |-> save_keys(ks, K.file, ok), ret |-> token]

\* validate_key: <<is_valid, duration_days>>
validate_key_any_known(ks, key) ==
  IF key \in DOMAIN ks THEN <<TRUE, ks[key].duration_days>> ELSE <<FALSE, 0>>

validate_key(ks, key) ==
  IF key \in DOMAIN ks /\ ks[key].used_by = None
    THEN <<TRUE, ks[key].duration_days>>
    ELSE <<FALSE, 0>>

\* use_key: marks an unused key as used by u, saves, answers whether it did
use_key(K, key, u, t, ok) ==
  IF key \in DOMAIN K.keys /\ K.keys[key].used_by = None
    THEN LET ks == [K.keys EXCEPT ![key].used_by = Some(u),
                                  ![key].used_at = isoformat(t)]
         IN  [keys |-> ks, file |-> save_keys(ks, K.file, ok), ret |-> TRUE]
    ELSE [keys |-> K.keys, file |-> K.file, ret |-> FALSE]

\* delete_key answering True with the entry left in the registry
delete_key_keeps_entry(K, key, ok) ==
  [keys |-> K.keys, file |-> K.file, ret |-> key \in DOMAIN K.keys]

\* delete_key: removes the key if present, saves, answers whether it did
delete_key(K, key, ok) ==
  IF key \in DOMAIN K.keys
    THEN LET ks == [k \in DOMAIN K.keys \ {key} |-> K.keys[k]]
         IN  [keys |-> ks, file |-> save_keys(ks, K.file, ok), ret |-> TRUE]
    ELSE [keys |-> K.keys, file |-> K.file, ret |-> FALSE]

\* -------------------------------------------------------------- messages
\* A text message: an access-key token, a text holding a Terabox URL, a text
\* that names a Terabox domain outside any URL, an http URL of another site,
\* or anything else.
Texts ==
  {[kind |-> "key", tok |-> k] : k \in Tokens}
    \cup {[kind |-> k, tok |-> 0] : k \in {"link", "domain", "http", "other"}}

\* "terabox.com" in text or "teraboxapp.com" in text or "1024tera.com" in text
mentions_terabox(text) == text.kind \in {"link", "domain"}

\* extract_url_from_text: the first http(s):// or www. URL naming a Terabox
\* domain, or None
extract_url_from_text(text) == IF text.kind = "link" THEN Some(text) ELSE None

\* ----------------------------------------------------------------- state
VARIABLES
  now,           \* datetime.now(), in ticks
  users,         \* user_manager.users
  users_file,    \* the content of user_data.json
  keys,          \* key_manager.keys
  keys_file,     \* the content of access_keys.json
  next_key,      \* the next token secrets.token_urlsafe will produce
  config,        \* config_manager.config
  config_file,   \* the content of bot_config.json
  awaiting_key,  \* context.user_data['awaiting_key'] of each user
  runs,          \* the pipeline runs in flight: stage and locals of each
  scratch,       \* the runs whose scratch file is in local storage
  delivered_today, \* per user: files delivered to free requests submitted today
  attempts,      \* per token: redemption attempts made while it was registered
  accepted,      \* per token: attempts that ended in the success branch
  rejected,      \* per token: attempts answered "invalid or already used"
  lifetime,      \* users whose latest consumed key was a lifetime key
  program,       \* which of the two scripts runs: "qwen" or "blackbox"; "both"
                 \* when the two are fed the same events side by side
  db,            \* blackbox: the users table of botdata.db
  reset_due,     \* blackbox: the midnight job has been triggered and not yet run
  admin_config,  \* blackbox: the admin_config table of botdata.db
  last           \* the handler that ran last and what it answered

qwen_vars == <<users, users_file, keys, keys_file, next_key, config, config_file,
               awaiting_key, attempts, accepted, rejected, lifetime>>
blackbox_vars == <<db, reset_due, admin_config>>
pipe_vars == <<runs, scratch, delivered_today>>
vars == <<now, program, qwen_vars, blackbox_vars, pipe_vars, last>>

\* What a handler did: its answer, the key it was given, and for a handler that
\* evaluated the entitlement of its user: paid, the answer of that evaluation,
\* seen, the end of subscription it found on a paid record, and dw, the number
\* of downgrades it wrote.
\* For a step of a pipeline run: run, the run, arg, what the network answered
\* to it, and path, the path of the file the step opened. For an admin
\* command: shown, the stored contents its reply carries.
NoArg == [kind |-> "", size |-> 0]

\* what a text handler was sent
Sent(text) == [kind |-> text.kind, size |-> 0]

ObsCheck(op, u, ret, dw, paid, seen) ==
  [op |-> op, user |-> u, ret |-> ret, key |-> 0, dw |-> dw, paid |-> paid,
   seen |-> seen, run |-> 0, arg |-> NoArg, path |-> <<>>, shown |-> <<>>]

Obs(op, u, ret, key, dw) ==
  [op |-> op, user |-> u, ret |-> ret, key |-> key, dw |-> dw, paid |-> FALSE,
   seen |-> None, run |-> 0, arg |-> NoArg, path |-> <<>>, shown |-> <<>>]

ObsRun(op, r, u, ret, arg) ==
  [op |-> op, user |-> u, ret |-> ret, key |-> 0, dw |-> 0, paid |-> FALSE,
   seen |-> None, run |-> r, arg |-> arg, path |-> <<>>, shown |-> <<>>]

\* A pipeline run: the stage it is suspended in, the user who sent the link,
\* the day the link was submitted on, what the entitlement check answered,
\* whether the size check passed, the instant the fetch began, and before, the
\* entitlement state of the user when the link arrived.
IdleRun ==
  [stage |-> "idle", user |-> 0, day |-> 0, paid |-> FALSE,
   size_checked |-> FALSE, started |-> 0, before |-> <<>>]

\* BotConfigManager().load_config(): the file is read anew on every call
load_config == config_file

Init ==
  /\ now = 0
  /\ users = <<>>
  /\ users_file = <<>>
  /\ keys = <<>>
  /\ keys_file = <<>>
  /\ next_key = 1
  /\ config = DefaultConfig(DefaultFreeLimit)
  /\ config_file = DefaultConfig(DefaultFreeLimit)
  /\ awaiting_key = [u \in UserIds |-> FALSE]
  /\ runs = [r \in Runs |-> IdleRun]
  /\ scratch = {}
  /\ delivered_today = [u \in UserIds |-> 0]
  /\ attempts = [k \in Tokens |-> 0]
  /\ accepted = [k \in Tokens |-> 0]
  /\ rejected = [k \in Tokens |-> 0]
  /\ lifetime = {}
  /\ program = "qwen"
  /\ db = <<>>
  /\ reset_due = FALSE
  /\ admin_config = <<>>
  /\ last = Obs("init", 0, "", 0, 0)

\* ---------------------------------------------------------------- clock
\* In the blackbox script the scheduler triggers reset_daily_downloads when a
\* day begins (cron, hour=0, minute=0); the job then runs on a pool thread.
Tick ==
  /\ now < MaxTime
  /\ now' = now + 1
  /\ reset_due' = (reset_due \/ (program \in {"blackbox", "both"}
                                /\ (now + 1) % TicksPerDay = 0))
  /\ last' = Obs("tick", 0, "", 0, 0)
  /\ delivered_today' = IF (now + 1) % TicksPerDay = 0
                          THEN [u \in UserIds |-> 0] ELSE delivered_today
  /\ UNCHANGED <<qwen_vars, program, db, admin_config, runs, scratch>>

\* ------------------------------------------------------------- handlers
\* the end of subscription is_paid_user finds on the record of u, if paid
seen_end(us, u) ==
  IF get_user(us, u)[u].is_paid THEN get_user(us, u)[u].subscription_end ELSE None

\* button_callback, query.data == "enter_key"
button_callback(u) ==
  /\ awaiting_key' = [awaiting_key EXCEPT ![u] = TRUE]
  /\ last' = Obs("button_callback", u, "enter_key", 0, 0)
  /\ UNCHANGED <<now, users, users_file, keys, keys_file, next_key, config,
                 config_file, pipe_vars, attempts, accepted, rejected, lifetime,
                 program, blackbox_vars>>

\* stats_command (also behind the "stats" and "subscription" buttons)
stats_command(u, uok) ==
  LET G == get_user_stats([users |-> users, file |-> users_file], u, now,
                          load_config.free_limit, uok)
  IN  /\ users' = G.users
      /\ users_file' = G.file
      /\ last' = ObsCheck("stats_command", u,
                          IF G.stats.is_paid THEN "paid" ELSE "free", G.dw,
                          G.stats.is_paid, seen_end(users, u))
      /\ UNCHANGED <<now, keys, keys_file, next_key, config, config_file,
                     awaiting_key, pipe_vars, attempts, accepted, rejected, lifetime,
                     program, blackbox_vars>>

\* handle_access_key with awaiting_key set: validate_key, use_key,
\* activate_subscription, the reply, awaiting_key cleared
handle_access_key(u, text, kok, uok) ==
  LET key == text.tok
      v == validate_key(keys, key)
      K == use_key([keys |-> keys, file |-> keys_file], key, u, now, kok)
      A == activate_subscription([users |-> users, file |-> users_file], u, now,
                                 v[2], key, uok)
      known == key \in DOMAIN keys
      ret == IF ~v[1] THEN "rejected"
             ELSE IF ~K.ret THEN "error"
             ELSE IF A.raised THEN "crashed"
             ELSE "accepted"
  IN  /\ awaiting_key[u]
      /\ known => attempts[key] < MaxAttempts
      /\ keys' = IF v[1] THEN K.keys ELSE keys
      /\ keys_file' = IF v[1] THEN K.file ELSE keys_file
      /\ users' = IF v[1] /\ K.ret THEN A.users ELSE users
      /\ users_file' = IF v[1] /\ K.ret THEN A.file ELSE users_file
      /\ awaiting_key' = [awaiting_key EXCEPT ![u] = (ret = "crashed")]
      /\ attempts' = IF known THEN [attempts EXCEPT ![key] = @ + 1] ELSE attempts
      /\ accepted' = IF known /\ ret = "accepted"
                       THEN [accepted EXCEPT ![key] = @ + 1] ELSE accepted
      /\ rejected' = IF known /\ ret = "rejected"
                       THEN [rejected EXCEPT ![key] = @ + 1] ELSE rejected
      /\ lifetime' = IF ret = "accepted"
                       THEN (IF v[2] <= 0 THEN lifetime \cup {u} ELSE lifetime \ {u})
                       ELSE lifetime
      /\ last' = Obs("handle_access_key", u, ret, key, 0)
      /\ UNCHANGED <<now, next_key, config, config_file, pipe_vars,
                     program, blackbox_vars>>

\* File names the resolver may give: strings over a letter ("a"), ".", " ",
\* "/" and "*"; "d" stands for "downloads", "t" for "temp", "u" for the user
\* id in the paths built from them.
Chars == {"a", ".", " ", "/", "*"}
Names == UNION {[1..n -> Chars] : n \in 0..MaxNameLen}
\* data.get("name", "video.mp4") of an answer of a well-behaved resolver
PlainName == <<"a", ".", "a">>

\* c.isalnum()
isalnum(c) == c \in {"a", "d", "t", "u"}

\* c.isalnum() or c in (' ', '.', '_', '-')
kept(c) == isalnum(c) \/ c \in {" ", ".", "_", "-"}

\* str.rstrip()
RECURSIVE rstrip(_)
rstrip(str) ==
  IF str # <<>> /\ str[Len(str)] = " " THEN rstrip(SubSeq(str, 1, Len(str) - 1))
  ELSE str

\* os.path.join("downloads", filename): an absolute filename replaces the
\* directory
os_path_join(dir, filename) ==
  IF filename # <<>> /\ filename[1] = "/" THEN filename
  ELSE dir \o <<"/">> \o filename

\* filepath of download_video_with_progress: the joined path with every
\* character outside the kept set removed, then rstrip
filepath(filename) == rstrip(SelectSeq(os_path_join(<<"d">>, filename), kept))

\* open(filepath, 'wb') raises for the empty path and for the directory
\* "downloads"
opens(path) == path \notin {<<>>, <<"d">>}

\* is_paid, subscription_end, daily_downloads and download_history of u
entitlement_state(us, u) ==
  LET rec == get_user(us, u)[u]
  IN  <<rec.is_paid, rec.subscription_end, rec.daily_downloads,
        rec.download_history>>

\* What the resolution API can answer: a status other than 200, nothing
\* within the 30 seconds of line 561, a body without "url", or a body with
\* "url" and a size in bytes: none, exactly the default limit, one byte more
Sizes == {0, DefaultSizeLimit * BytesPerMB, DefaultSizeLimit * BytesPerMB + 1}

\* What can break a fetch under way
FetchErrors == {"connection_error", "timeout"}

ApiResponses ==
  {[kind |-> k, size |-> 0] : k \in {"http_error", "timeout", "no_url"}}
    \cup {[kind |-> "video", size |-> sz] : sz \in Sizes}

\* Everything a step of a run of the first script leaves alone besides the
\* user store and the run itself
qwen_rest ==
  <<now, keys, keys_file, next_key, config, config_file, awaiting_key, attempts,
    accepted, rejected, lifetime, program, blackbox_vars>>

\* A run leaving through a return or an except branch: nothing is removed
end_run(op, r, ret, arg) ==
  /\ runs' = [runs EXCEPT ![r] = IdleRun]
  /\ last' = ObsRun(op, r, runs[r].user, ret, arg)

\* process_terabox_link up to its first network call: update_user_info,
\* can_download, extract_url_from_text, the "Processing" reply
process_terabox_link(r, u, text, uok) ==
  LET I == update_user_info([users |-> users, file |-> users_file], u, uok)
      C == can_download([users |-> I.users, file |-> I.file], u, now,
                        load_config.free_limit, uok)
      url == extract_url_from_text(text)
      ret == IF ~C.ret THEN C.msg ELSE IF url = None THEN "no_url" ELSE "started"
  IN  /\ ~awaiting_key[u]
      /\ mentions_terabox(text)
      /\ runs[r].stage = "idle"
      /\ users' = C.users
      /\ users_file' = C.file
      /\ runs' = [runs EXCEPT ![r] =
                    IF ret = "started"
                    THEN [stage |-> "resolving", user |-> u,
                          day |-> now \div TicksPerDay, paid |-> C.paid,
                          size_checked |-> FALSE, started |-> 0,
                          before |-> entitlement_state(users, u)]
                    ELSE IdleRun]
      /\ last' = [ObsCheck("process_terabox_link", u, ret, C.dw, C.paid,
                           seen_end(users, u))
                    EXCEPT !.run = r, !.arg = Sent(text)]
      /\ UNCHANGED <<qwen_rest, scratch, delivered_today>>

\* api_answered counting a download when the API answers with an error status
api_answered_counted(r, resp) ==
  LET u == runs[r].user
      N == increment_download_count([users |-> users, file |-> users_file], u, now,
                                    "video", TRUE)
  IN  /\ runs[r].stage = "resolving"
      /\ resp.kind = "http_error"
      /\ get_user(users, u)[u].daily_downloads < MaxDaily
      /\ users' = N.users
      /\ users_file' = N.file
      /\ end_run("api_answered", r, "api_error", resp)
      /\ UNCHANGED <<qwen_rest, scratch, delivered_today>>

\* Kinds of answer that carry "url"; "video_unsized" is a body without "size"
VideoKinds == {"video", "video_unsized"}

\* data.get("size", 0) of line 575
video_size(resp) == IF resp.kind = "video" THEN resp.size ELSE 0

\* video_size // (1024 * 1024): the whole MB only
video_size_mb_floor(size) == [num |-> size \div BytesPerMB, den |-> 1]

\* video_size / (1024 * 1024) of line 578: true division, kept as a fraction
video_size_mb(size) == [num |-> size, den |-> BytesPerMB]

\* video_size_mb > size_limit of line 583, for a fraction with den > 0
exceeds(mb, size_limit) == mb.num > size_limit * mb.den

\* process_terabox_link from the API answer to the start of the fetch: status,
\* "url", the size check against video_size_limit, the "Downloading" edit
api_answered(r, resp) ==
  LET size_limit == load_config.video_size_limit
      ret == CASE resp.kind = "timeout" -> "timed_out"
               [] resp.kind = "http_error" -> "api_error"
               [] resp.kind = "no_url" -> "no_download_url"
               [] resp.kind \in VideoKinds
                  /\ exceeds(video_size_mb(video_size(resp)), size_limit)
                    -> "too_large"
               [] OTHER -> "fetching"
  IN  /\ runs[r].stage = "resolving"
      /\ IF ret = "fetching"
         THEN /\ runs' = [runs EXCEPT ![r].stage = "fetching",
                                      ![r].size_checked = TRUE,
                                      ![r].started = now]
              /\ last' = ObsRun("api_answered", r, runs[r].user, ret, resp)
         ELSE end_run("api_answered", r, ret, resp)
      /\ UNCHANGED <<users, users_file, qwen_rest, scratch, delivered_today>>

\* A status edit of lines 555, 591 or 601 raising: the except branch of line
\* 651 reports the error and the run ends
status_edit_failed(r) ==
  /\ runs[r].stage \in {"resolving", "fetching", "delivering"}
  /\ end_run("status_edit_failed", r, "error", NoArg)
  /\ UNCHANGED <<users, users_file, qwen_rest, scratch, delivered_today>>

\* download_video_with_progress from session.get to open(): the status of the
\* origin, the first progress edit, the file created
origin_answered(r, status_ok, edit_ok, video_name) ==
  /\ runs[r].stage = "fetching"
  /\ IF status_ok /\ edit_ok /\ opens(filepath(video_name))
     THEN /\ runs' = [runs EXCEPT ![r].stage = "writing"]
          /\ scratch' = scratch \cup {r}
          /\ last' = [ObsRun("origin_answered", r, runs[r].user, "writing", NoArg)
                        EXCEPT !.path = filepath(video_name)]
     ELSE /\ end_run("origin_answered", r, "download_error",
                     [kind |-> IF ~status_ok THEN "http_error"
                               ELSE IF ~edit_ok THEN "first_edit_failed"
                               ELSE "open_failed", size |-> 0])
          /\ UNCHANGED scratch
  /\ UNCHANGED <<users, users_file, qwen_rest, delivered_today>>

\* One chunk written and its progress edit, which may raise inside the
\* try/except of lines 696-703
progress_update(r, edit_ok) ==
  /\ runs[r].stage = "writing"
  /\ last' = ObsRun("progress_update", r, runs[r].user, "writing",
                    [kind |-> IF edit_ok THEN "edited" ELSE "edit_failed",
                     size |-> 0])
  /\ UNCHANGED <<users, users_file, qwen_rest, pipe_vars>>

\* download_video_with_progress raising while it waits for the origin or reads
\* a chunk (connection error, timeout): line 707 returns None, line 596 reports
\* "Error downloading video"
fetch_failed(r, why) ==
  /\ runs[r].stage \in {"fetching", "writing"}
  /\ end_run("fetch_failed", r, "download_error", [kind |-> why, size |-> 0])
  /\ UNCHANGED <<users, users_file, qwen_rest, scratch, delivered_today>>

\* The last chunk written after the origin sent delivered bytes in all (the
\* loop of lines 694-706 writes every chunk it is given), the "Uploading"
\* edit, send_video begun
fetch_completed_bytes(r, delivered) ==
  /\ runs[r].stage = "writing"
  /\ runs' = [runs EXCEPT ![r].stage = "delivering"]
  /\ last' = ObsRun("fetch_completed", r, runs[r].user, "delivering",
                    [kind |-> "", size |-> delivered])
  /\ UNCHANGED <<users, users_file, qwen_rest, scratch, delivered_today>>

fetch_completed(r) == fetch_completed_bytes(r, 0)

\* send_failed counting the download that was not delivered
send_failed_counted(r) ==
  LET u == runs[r].user
      N == increment_download_count([users |-> users, file |-> users_file], u, now,
                                    "video", TRUE)
  IN  /\ runs[r].stage = "delivering"
      /\ get_user(users, u)[u].daily_downloads < MaxDaily
      /\ users' = N.users
      /\ users_file' = N.file
      /\ end_run("send_failed", r, "error", NoArg)
      /\ UNCHANGED <<qwen_rest, scratch, delivered_today>>

\* send_video raising (upload refused, timed out): the except branch of line
\* 651 reports the error
send_failed(r) ==
  /\ runs[r].stage = "delivering"
  /\ end_run("send_failed", r, "error", NoArg)
  /\ UNCHANGED <<users, users_file, qwen_rest, scratch, delivered_today>>

\* process_terabox_link after send_video returned: os.remove,
\* increment_download_count, the "completed" edit, get_user_stats for the
\* follow-up message
pipeline_delivered_video(r, uok, video_info) ==
  LET u == runs[r].user
      N == increment_download_count([users |-> users, file |-> users_file], u, now,
                                    video_info, uok)
      G == get_user_stats([users |-> N.users, file |-> N.file], u, now,
                          load_config.free_limit, uok)
  IN  /\ runs[r].stage = "delivering"
      /\ get_user(users, u)[u].daily_downloads < MaxDaily
      /\ users' = G.users
      /\ users_file' = G.file
      /\ runs' = [runs EXCEPT ![r] = IdleRun]
      /\ scratch' = scratch \ {r}
      /\ delivered_today' =
           IF ~runs[r].paid /\ runs[r].day = now \div TicksPerDay
           THEN [delivered_today EXCEPT ![u] = @ + 1] ELSE delivered_today
      /\ last' = [ObsCheck("pipeline_delivered", u, "done", G.dw,
                           G.stats.is_paid, seen_end(users, u))
                    EXCEPT !.run = r, !.arg = [kind |-> video_info, size |-> 0]]
      /\ UNCHANGED qwen_rest

\* the same for the video every other run delivers
pipeline_delivered(r, uok) == pipeline_delivered_video(r, uok, "video")

\* handle_message with awaiting_key clear and a text naming no Terabox domain
other_message(u, text) ==
  /\ ~awaiting_key[u]
  /\ ~mentions_terabox(text)
  /\ last' = [Obs("other_message", u, "send_link_please", 0, 0)
                EXCEPT !.arg = Sent(text)]
  /\ UNCHANGED <<now, users, users_file, keys, keys_file, next_key, config,
                 config_file, awaiting_key, pipe_vars, attempts, accepted, rejected,
                 lifetime,
                 program, blackbox_vars>>

\* handle_message: the dispatch on awaiting_key and on the text
handle_message(r, u, text, kok, uok) ==
  \/ handle_access_key(u, text, kok, uok)
  \/ process_terabox_link(r, u, text, uok)
  \/ other_message(u, text)

\* ------------------------------------------------------- admin commands
generate_key_command(caller, duration_days, kok) ==
  LET K == generate_key([keys |-> keys, file |-> keys_file], next_key,
                        duration_days, now, kok)
  IN  /\ next_key <= MaxKeys
      /\ IF caller # ADMIN_USER_ID
           THEN /\ last' = Obs("generate_key_command", caller, "unauthorized", 0, 0)
                /\ UNCHANGED <<keys, keys_file, next_key>>
           ELSE /\ keys' = K.keys
                /\ keys_file' = K.file
                /\ next_key' = next_key + 1
                /\ last' = Obs("generate_key_command", caller, "generated", K.ret, 0)
      /\ UNCHANGED <<now, users, users_file, config, config_file, awaiting_key, pipe_vars,
                     attempts, accepted, rejected, lifetime,
                     program, blackbox_vars>>

delete_key_command(caller, key, kok) ==
  LET K == delete_key([keys |-> keys, file |-> keys_file], key, kok)
  IN  /\ IF caller # ADMIN_USER_ID
           THEN /\ last' = Obs("delete_key_command", caller, "unauthorized", 0, 0)
                /\ UNCHANGED <<keys, keys_file>>
           ELSE /\ keys' = K.keys
                /\ keys_file' = K.file
                /\ last' = Obs("delete_key_command", caller,
                               IF K.ret THEN "deleted" ELSE "not_found", key, 0)
      /\ UNCHANGED <<now, users, users_file, next_key, config, config_file,
                     awaiting_key, pipe_vars, attempts, accepted, rejected, lifetime,
                     program, blackbox_vars>>

\* update_config keeping the new value in memory only
update_config_unsaved(cfg, file, key, value, cok) ==
  [config |-> [cfg EXCEPT ![key] = value], file |-> file]

\* update_config: self.config[key] = value, save_config; an I/O error of the
\* save is logged and dropped
update_config(cfg, file, key, value, cok) ==
  LET c == [cfg EXCEPT ![key] = value]
  IN  [config |-> c, file |-> IF cok THEN c ELSE file]

\* set_config_command <key> <value> with a value of digits
set_config_key(caller, key, value, cok) ==
  LET U == update_config(config, config_file, key, value, cok)
  IN  /\ IF caller # ADMIN_USER_ID
           THEN /\ last' = Obs("set_config_command", caller, "unauthorized", 0, 0)
                /\ UNCHANGED <<config, config_file>>
           ELSE /\ config' = U.config
                /\ config_file' = U.file
                /\ last' = [Obs("set_config_command", caller, "updated", 0, 0)
                              EXCEPT !.arg = [kind |-> key, size |-> value]]
      /\ UNCHANGED <<now, users, users_file, keys, keys_file, next_key,
                     awaiting_key, pipe_vars, attempts, accepted, rejected, lifetime,
                     program, blackbox_vars>>

\* set_config_command free_limit <n>
set_config_command(caller, n, cok) == set_config_key(caller, "free_limit", n, cok)

\* all_keys_command without the test of the caller
all_keys_command_open(caller) ==
  /\ last' = IF keys = <<>>
               THEN Obs("all_keys_command", caller, "no_keys", 0, 0)
               ELSE [Obs("all_keys_command", caller, "listed", 0, 0)
                       EXCEPT !.shown = <<keys>>]
  /\ UNCHANGED <<now, qwen_vars, pipe_vars, program, blackbox_vars>>

\* all_keys_command: the reply lists key_manager.get_all_keys()
all_keys_command(caller) ==
  /\ last' = IF caller # ADMIN_USER_ID
               THEN Obs("all_keys_command", caller, "unauthorized", 0, 0)
             ELSE IF keys = <<>>
               THEN Obs("all_keys_command", caller, "no_keys", 0, 0)
             ELSE [Obs("all_keys_command", caller, "listed", 0, 0)
                     EXCEPT !.shown = <<keys>>]
  /\ UNCHANGED <<now, qwen_vars, pipe_vars, program, blackbox_vars>>

\* config_command: the reply lists config_manager.load_config()
config_command(caller) ==
  /\ last' = IF caller # ADMIN_USER_ID
               THEN Obs("config_command", caller, "unauthorized", 0, 0)
               ELSE [Obs("config_command", caller, "listed", 0, 0)
                       EXCEPT !.shown = <<load_config>>]
  /\ UNCHANGED <<now, qwen_vars, pipe_vars, program, blackbox_vars>>

\* user_stats_command <user_id>: get_user, get_user_stats, the reply
user_stats_command(caller, user_id, uok) ==
  LET G == get_user_stats([users |-> users, file |-> users_file], user_id, now,
                          load_config.free_limit, uok)
  IN  /\ IF caller # ADMIN_USER_ID
           THEN /\ last' = Obs("user_stats_command", caller, "unauthorized", 0, 0)
                /\ UNCHANGED <<users, users_file>>
           ELSE /\ users' = G.users
                /\ users_file' = G.file
                /\ last' = [ObsCheck("user_stats_command", caller, "listed", G.dw,
                                     G.stats.is_paid, seen_end(users, user_id))
                              EXCEPT !.shown = <<G.stats>>]
      /\ UNCHANGED <<now, keys, keys_file, next_key, config, config_file,
                     awaiting_key, pipe_vars, attempts, accepted, rejected, lifetime,
                     program, blackbox_vars>>

\* ----------------------------------------------- the blackbox script
\* FREE_DAILY_LIMIT
FREE_DAILY_LIMIT == 5
\* /addsub takes any int; the day counts tried here
SubscriptionDays == {1}

\* datetime.strptime(s, "%Y-%m-%d"): the first instant of the day s names
strptime_date(s) == s[1] * TicksPerDay

\* get_user: the row of u as a dict, or None
db_get_user(d, u) == IF u \in DOMAIN d THEN Some(d[u]) ELSE None

\* add_or_update_user: inserts a row with the column defaults if u has none
add_or_update_user(d, u) ==
  IF u \in DOMAIN d
    THEN d
    ELSE d @@ (u :> [is_paid |-> FALSE, subscription_expiry |-> None,
                     daily_downloads |-> 0])

\* update_user_subscription: UPDATE ... WHERE user_id=?
update_user_subscription(d, u, is_paid, expiry_date) ==
  IF u \in DOMAIN d
    THEN [d EXCEPT ![u].is_paid = is_paid, ![u].subscription_expiry = expiry_date]
    ELSE d

\* increment_daily_download: UPDATE ... daily_downloads + 1 WHERE user_id=?
increment_daily_download(d, u) ==
  IF u \in DOMAIN d THEN [d EXCEPT ![u].daily_downloads = @ + 1] ELSE d

\* reset_daily_downloads: UPDATE users SET daily_downloads=0
reset_daily_downloads(d) == [u \in DOMAIN d |-> [d[u] EXCEPT !.daily_downloads = 0]]

\* text.startswith("http")
startswith_http(text) == text.kind \in {"link", "http"}

\* is_paid, subscription_expiry and daily_downloads of the row of u; the
\* script keeps no history
bb_entitlement_state(d, u) ==
  LET row == add_or_update_user(d, u)[u]
  IN  <<row.is_paid, row.subscription_expiry, row.daily_downloads, <<>>>>

\* What a step of a run of the blackbox script leaves alone besides the
\* database and the run itself
bb_rest == <<now, program, qwen_vars, reset_due, admin_config>>

\* requests.get and iter_content are synchronous calls inside the coroutine:
\* from the answer of the API to the last chunk written the event loop is held
\* by the run and nothing else is scheduled on it.
blocking(r) == runs[r].stage \in {"fetching", "writing"}

\* the event loop can schedule a step of run r, or when r is 0 a handler
loop_free(r) == \A q \in Runs \ {r} : ~blocking(q)

\* handle_message up to "Processing your video": the row read or inserted, the
\* expiry check with its downgrade, the daily limit of free users. The midnight
\* job, due at 00:00:00, has run before a message of the new day is handled.
bb_handle_message(r, u, text) ==
  LET d0 == add_or_update_user(db, u)
      row == d0[u]
      expired == /\ row.is_paid
                 /\ row.subscription_expiry # None
                 /\ strptime_date(row.subscription_expiry) < now
      d1 == IF expired THEN update_user_subscription(d0, u, FALSE, None) ELSE d0
      is_paid == row.is_paid /\ ~expired
      ret == IF ~startswith_http(text) THEN "not_http"
             ELSE IF ~is_paid /\ row.daily_downloads >= FREE_DAILY_LIMIT
               THEN "daily limit"
             ELSE "started"
  IN  /\ runs[r].stage = "idle"
      /\ loop_free(r)
      /\ ~reset_due
      /\ db' = IF startswith_http(text) THEN d1 ELSE d0
      /\ runs' = [runs EXCEPT ![r] =
                    IF ret = "started"
                    THEN [stage |-> "resolving", user |-> u,
                          day |-> now \div TicksPerDay, paid |-> is_paid,
                          size_checked |-> FALSE, started |-> 0,
                          before |-> bb_entitlement_state(db, u)]
                    ELSE IdleRun]
      /\ last' = IF startswith_http(text)
                   THEN [ObsCheck("bb_handle_message", u, ret,
                                  IF expired THEN 1 ELSE 0, is_paid,
                                  IF row.is_paid /\ row.subscription_expiry # None
                                    THEN Some(strptime_date(row.subscription_expiry))
                                    ELSE None)
                         EXCEPT !.run = r, !.arg = Sent(text)]
                   ELSE [Obs("bb_handle_message", u, ret, 0, 0)
                         EXCEPT !.arg = Sent(text)]
      /\ UNCHANGED <<bb_rest, scratch, delivered_today>>

\* handle_message from the API answer to the request to the origin:
\* raise_for_status, "url" and "filename", requests.get(video_url, stream=True)
bb_api_answered(r, resp) ==
  LET ret == CASE resp.kind \in {"timeout", "http_error"} -> "error"
               [] resp.kind = "no_url" -> "no_video_info"
               [] OTHER -> "fetching"
  IN  /\ runs[r].stage = "resolving"
      /\ loop_free(r)
      /\ IF ret = "fetching"
         THEN /\ runs' = [runs EXCEPT ![r].stage = "fetching", ![r].started = now]
              /\ last' = ObsRun("bb_api_answered", r, runs[r].user, ret, resp)
         ELSE end_run("bb_api_answered", r, ret, resp)
      /\ UNCHANGED <<db, bb_rest, scratch, delivered_today>>

\* temp_path: f"temp_{user.id}_{filename}", the file name as the API gave it
temp_path(filename) == <<"t", "_", "u", "_">> \o filename

\* open(temp_path, "wb") raises when the path names a directory that does not
\* exist, as every directory "temp_<id>_..." in the working directory
bb_opens(path) == \A i \in 1..Len(path) : path[i] # "/"

\* The origin answered: raise_for_status, then open(temp_path, "wb")
bb_origin_answered(r, status_ok, filename) ==
  /\ runs[r].stage = "fetching"
  /\ IF status_ok /\ bb_opens(temp_path(filename))
     THEN /\ runs' = [runs EXCEPT ![r].stage = "writing"]
          /\ scratch' = scratch \cup {r}
          /\ last' = [ObsRun("bb_origin_answered", r, runs[r].user, "writing",
                             NoArg)
                        EXCEPT !.path = temp_path(filename)]
     ELSE /\ end_run("bb_origin_answered", r, "error",
                     [kind |-> IF status_ok THEN "open_failed" ELSE "http_error",
                      size |-> 0])
          /\ UNCHANGED scratch
  /\ UNCHANGED <<db, bb_rest, delivered_today>>

\* requests raising while it waits for the origin or iter_content raising on a
\* chunk: the except branch of line 213
bb_fetch_failed(r, why) ==
  /\ runs[r].stage \in {"fetching", "writing"}
  /\ end_run("bb_fetch_failed", r, "error", [kind |-> why, size |-> 0])
  /\ UNCHANGED <<db, bb_rest, scratch, delivered_today>>

\* The last chunk written, reply_video begun
bb_fetch_completed(r) ==
  /\ runs[r].stage = "writing"
  /\ runs' = [runs EXCEPT ![r].stage = "delivering"]
  /\ last' = ObsRun("bb_fetch_completed", r, runs[r].user, "delivering", NoArg)
  /\ UNCHANGED <<db, bb_rest, scratch, delivered_today>>

\* reply_video raising: the except branch of line 213
bb_send_failed(r) ==
  /\ runs[r].stage = "delivering"
  /\ loop_free(r)
  /\ end_run("bb_send_failed", r, "error", NoArg)
  /\ UNCHANGED <<db, bb_rest, scratch, delivered_today>>

\* handle_message after reply_video returned: os.remove, then the count of a
\* user who was free when the handler read the row
bb_pipeline_delivered(r) ==
  LET u == runs[r].user
  IN  /\ runs[r].stage = "delivering"
      /\ loop_free(r)
      /\ db' = IF ~runs[r].paid THEN increment_daily_download(db, u) ELSE db
      /\ runs' = [runs EXCEPT ![r] = IdleRun]
      /\ scratch' = scratch \ {r}
      /\ delivered_today' =
           IF ~runs[r].paid /\ runs[r].day = now \div TicksPerDay
           THEN [delivered_today EXCEPT ![u] = @ + 1] ELSE delivered_today
      /\ last' = ObsRun("bb_pipeline_delivered", r, u, "done", NoArg)
      /\ UNCHANGED bb_rest

\* admin_add_subscription: /addsub user_id days
admin_add_subscription(caller, user_id, days) ==
  LET user == db_get_user(db, user_id)
      expiry == user[1].subscription_expiry
      base == IF expiry # None /\ strptime_date(expiry) > now
                THEN strptime_date(expiry) ELSE now
      new_expiry == plus_days(base, days)
  IN  /\ loop_free(0)
      /\ IF caller # ADMIN_USER_ID
           THEN /\ last' = Obs("admin_add_subscription", caller, "unauthorized", 0, 0)
                /\ db' = db
         ELSE IF user = None
           THEN /\ last' = Obs("admin_add_subscription", caller, "not_found", 0, 0)
                /\ db' = db
         ELSE IF timedelta_overflows(base, days)
           THEN /\ last' = Obs("admin_add_subscription", caller, "crashed", 0, 0)
                /\ db' = db
         ELSE /\ last' = Obs("admin_add_subscription", caller, "updated", 0, 0)
              /\ db' = update_user_subscription(db, user_id, TRUE,
                                                strftime_date(new_expiry))
      /\ UNCHANGED <<now, program, qwen_vars, pipe_vars, reset_due, admin_config>>

\* the message texts an administrator may set; "" is a command without text
AdminTexts == {"", "text"}

\* get_admin_config: the value stored under key, or None
get_admin_config(cfg, key) == IF key \in DOMAIN cfg THEN Some(cfg[key]) ELSE None

\* set_admin_config: INSERT the row, or UPDATE it when the key has one
set_admin_config(cfg, key, value) ==
  IF get_admin_config(cfg, key) = None
    THEN cfg @@ (key :> value)
    ELSE [cfg EXCEPT ![key] = value]

\* the body the three text commands share: the caller test, the usage reply
\* for an empty text, set_admin_config
admin_set_text(op, caller, key, text) ==
  /\ loop_free(0)
  /\ IF caller # ADMIN_USER_ID
       THEN /\ last' = Obs(op, caller, "unauthorized", 0, 0)
            /\ admin_config' = admin_config
     ELSE IF text = ""
       THEN /\ last' = Obs(op, caller, "usage", 0, 0)
            /\ admin_config' = admin_config
     ELSE /\ last' = Obs(op, caller, "updated", 0, 0)
          /\ admin_config' = set_admin_config(admin_config, key, text)
  /\ UNCHANGED <<now, program, qwen_vars, pipe_vars, db, reset_due>>

\* /setwelcome
admin_set_welcome(caller, text) ==
  admin_set_text("admin_set_welcome", caller, "welcome_text", text)

\* /setsubscriptiontext
admin_set_subscription_text(caller, text) ==
  admin_set_text("admin_set_subscription_text", caller, "subscription_text", text)

\* /setcontactinfo
admin_set_contact_info(caller, text) ==
  admin_set_text("admin_set_contact_info", caller, "contact_info", text)

\* /adminstats: the counts of all, paid and free rows of the users table
admin_stats(caller) ==
  /\ loop_free(0)
  /\ last' = IF caller # ADMIN_USER_ID
               THEN Obs("admin_stats", caller, "unauthorized", 0, 0)
               ELSE [Obs("admin_stats", caller, "listed", 0, 0)
                       EXCEPT !.shown =
                         <<Cardinality(DOMAIN db),
                           Cardinality({u \in DOMAIN db : db[u].is_paid}),
                           Cardinality({u \in DOMAIN db : ~db[u].is_paid})>>]
  /\ UNCHANGED <<now, program, qwen_vars, pipe_vars, blackbox_vars>>

\* the job the scheduler triggered at midnight; AsyncIOScheduler submits it
\* from the event loop
reset_daily_downloads_job ==
  /\ reset_due
  /\ loop_free(0)
  /\ db' = reset_daily_downloads(db)
  /\ reset_due' = FALSE
  /\ last' = Obs("reset_daily_downloads", 0, "", 0, 0)
  /\ UNCHANGED <<now, program, qwen_vars, pipe_vars, admin_config>>

\* --------------------------------------------------------- specification
\* The user who sends messages and presses buttons; the administrator's
\* account issues the admin commands.
Client == 2
KeyTexts == {t \in Texts : t.kind = "key"}
LinkTexts == {t \in Texts : t.kind \in {"link", "domain"}}

\* The records user_data.json may hold for a user when the process starts:
\* free, paid for life, or paid until some instant; any count of downloads,
\* last counted on no day, on the day before the start or on its first day.
StoredUsers ==
  [is_paid : {TRUE}, subscription_end : {None} \cup {isoformat(e) : e \in 1..MaxTime},
   daily_downloads : 0..MaxDaily, last_download_date : {None, <<-1>>, <<0>>},
   download_history : {<<>>}, access_key_used : {None}]
    \cup
  [is_paid : {FALSE}, subscription_end : {None},
   daily_downloads : 0..MaxDaily, last_download_date : {None, <<-1>>, <<0>>},
   download_history : {<<>>}, access_key_used : {None}]

\* Init with user_data.json holding a record of the client
InitStored ==
  /\ now = 0
  /\ \E r \in StoredUsers : /\ users = (Client :> r)
                            /\ users_file = (Client :> r)
  /\ keys = <<>>
  /\ keys_file = <<>>
  /\ next_key = 1
  /\ \E n \in FreeLimits : /\ config = DefaultConfig(n)
                           /\ config_file = DefaultConfig(n)
  /\ awaiting_key = [u \in UserIds |-> FALSE]
  /\ runs = [r \in Runs |-> IdleRun]
  /\ scratch = {}
  /\ delivered_today = [u \in UserIds |-> 0]
  /\ attempts = [k \in Tokens |-> 0]
  /\ accepted = [k \in Tokens |-> 0]
  /\ rejected = [k \in Tokens |-> 0]
  /\ lifetime = {}
  /\ program = "qwen"
  /\ db = <<>>
  /\ reset_due = FALSE
  /\ admin_config = <<>>
  /\ last = Obs("init", 0, "", 0, 0)

\* The rows botdata.db may hold for a user when the blackbox script starts:
\* free, or paid until the day /addsub stored; a count the limit allows.
StoredRows ==
  [is_paid : {TRUE},
   subscription_expiry : {<<d>> : d \in 0..(MaxTime \div TicksPerDay + 1)},
   daily_downloads : 0..FREE_DAILY_LIMIT]
    \cup
  [is_paid : {FALSE}, subscription_expiry : {None},
   daily_downloads : 0..FREE_DAILY_LIMIT]

\* Init of the blackbox script with botdata.db holding a row of the client
InitBlackbox ==
  /\ now = 0
  /\ users = <<>>
  /\ users_file = <<>>
  /\ keys = <<>>
  /\ keys_file = <<>>
  /\ next_key = 1
  /\ config = DefaultConfig(DefaultFreeLimit)
  /\ config_file = DefaultConfig(DefaultFreeLimit)
  /\ awaiting_key = [u \in UserIds |-> FALSE]
  /\ runs = [r \in Runs |-> IdleRun]
  /\ scratch = {}
  /\ delivered_today = [u \in UserIds |-> 0]
  /\ attempts = [k \in Tokens |-> 0]
  /\ accepted = [k \in Tokens |-> 0]
  /\ rejected = [k \in Tokens |-> 0]
  /\ lifetime = {}
  /\ program = "blackbox"
  /\ \E r \in StoredRows : db = (Client :> r)
  /\ reset_due = FALSE
  /\ admin_config = <<>>
  /\ last = Obs("init", 0, "", 0, 0)

\* Either script with one stored user, and the clock. The first script: the
\* entitlement checks of links, deliveries and stats, the free limit
\* reconfigured meanwhile, every write succeeding. The blackbox script:
\* messages, deliveries, /addsub, the midnight job.
Next ==
  \/ Tick
  \/ program = "qwen" /\ stats_command(Client, TRUE)
  \/ program = "qwen" /\ \E text \in LinkTexts :
                            process_terabox_link(1, Client, text, TRUE)
  \/ program = "qwen" /\ \E resp \in ApiResponses : api_answered(1, resp)
  \/ program = "qwen" /\ status_edit_failed(1)
  \/ program = "qwen" /\ \E status_ok, edit_ok \in BOOLEAN :
                            origin_answered(1, status_ok, edit_ok, PlainName)
  \/ program = "qwen" /\ \E edit_ok \in BOOLEAN : progress_update(1, edit_ok)
  \/ program = "qwen" /\ \E why \in FetchErrors : fetch_failed(1, why)
  \/ program = "qwen" /\ fetch_completed(1)
  \/ program = "qwen" /\ send_failed(1)
  \/ program = "qwen" /\ pipeline_delivered(1, TRUE)
  \/ program = "qwen" /\ \E c \in UserIds, n \in FreeLimits :
                            set_config_command(c, n, TRUE)
  \/ program = "blackbox" /\ \E text \in Texts : bb_handle_message(1, Client, text)
  \/ program = "blackbox" /\ \E resp \in ApiResponses : bb_api_answered(1, resp)
  \/ program = "blackbox" /\ \E status_ok \in BOOLEAN :
                                bb_origin_answered(1, status_ok, PlainName)
  \/ program = "blackbox" /\ \E why \in FetchErrors : bb_fetch_failed(1, why)
  \/ program = "blackbox" /\ bb_fetch_completed(1)
  \/ program = "blackbox" /\ bb_send_failed(1)
  \/ program = "blackbox" /\ bb_pipeline_delivered(1)
  \/ program = "blackbox" /\ \E c \in UserIds, u \in UserIds, d \in SubscriptionDays :
                                admin_add_subscription(c, u, d)
  \/ program = "blackbox" /\ reset_daily_downloads_job

Spec == (InitStored \/ InitBlackbox) /\ [][Next]_vars

\* Every user redeeming keys, the registry administered meanwhile.
NextKeys ==
  \/ Tick
  \/ \E u \in UserIds : button_callback(u)
  \/ \E u \in UserIds, text \in KeyTexts : handle_access_key(u, text, TRUE, TRUE)
  \/ \E d \in Durations : generate_key_command(ADMIN_USER_ID, d, TRUE)
  \/ \E k \in Tokens : delete_key_command(ADMIN_USER_ID, k, TRUE)

SpecKeys == Init /\ [][NextKeys]_vars

\* Init with access_keys.json holding two unused keys of an earlier run: a
\* lifetime key (0 or -1 days) and a key of one day
InitTwoKeys ==
  /\ now = 0
  /\ users = <<>>
  /\ users_file = <<>>
  /\ \E d \in {-1, 0} :
       /\ keys = (1 :> [duration_days |-> d, used_by |-> None, used_at |-> None])
                   @@ (2 :> [duration_days |-> 1, used_by |-> None, used_at |-> None])
       /\ keys_file = keys
  /\ next_key = 3
  /\ config = DefaultConfig(DefaultFreeLimit)
  /\ config_file = DefaultConfig(DefaultFreeLimit)
  /\ awaiting_key = [u \in UserIds |-> FALSE]
  /\ runs = [r \in Runs |-> IdleRun]
  /\ scratch = {}
  /\ delivered_today = [u \in UserIds |-> 0]
  /\ attempts = [k \in Tokens |-> 0]
  /\ accepted = [k \in Tokens |-> 0]
  /\ rejected = [k \in Tokens |-> 0]
  /\ lifetime = {}
  /\ program = "qwen"
  /\ db = <<>>
  /\ reset_due = FALSE
  /\ admin_config = <<>>
  /\ last = Obs("init", 0, "", 0, 0)

\* One client with every handler and the two keys to redeem; a run fails on
\* an error status of the resolution API or is delivered.
NextLifetime ==
  \/ Tick
  \/ button_callback(Client)
  \/ stats_command(Client, TRUE)
  \/ \E text \in KeyTexts \cup {t \in Texts : t.kind \in {"link", "other"}} :
       handle_message(1, Client, text, TRUE, TRUE)
  \/ \E resp \in {a \in ApiResponses : a.kind \in {"video", "http_error"}
                                        /\ a.size = 0} :
       api_answered(1, resp)
  \/ origin_answered(1, TRUE, TRUE, PlainName)
  \/ fetch_completed(1)
  \/ pipeline_delivered(1, TRUE)

SpecLifetime == InitTwoKeys /\ [][NextLifetime]_vars

\* The stored records and rows the pipeline is followed from: a user free or
\* paid, for life or until the second day begins, who downloaded nothing or
\* one file yesterday or today; a row one download below the limit or at it.
PipelineUsers ==
  {r \in StoredUsers : /\ r.subscription_end \in {None, isoformat(TicksPerDay)}
                       /\ r.daily_downloads <= 1
                       /\ r.last_download_date # None}

PipelineRows ==
  {r \in StoredRows : /\ r.subscription_expiry \in {None, <<0>>, <<1>>}
                      /\ r.daily_downloads >= FREE_DAILY_LIMIT - 1}

InitPipeline ==
  /\ InitStored \/ InitBlackbox
  /\ program = "qwen" => users[Client] \in PipelineUsers
  /\ program = "blackbox" => db[Client] \in PipelineRows

\* The slot a new run takes: the first idle one
free_slot(r) ==
  /\ runs[r].stage = "idle"
  /\ \A q \in Runs : q < r => runs[q].stage # "idle"

\* Either script with one stored user sending texts, one run at a time, every
\* stage of a run ending either way, the clock and the midnight job.
NextPipeline ==
  \/ Tick
  \/ program = "qwen" /\ \E text \in Texts \ KeyTexts :
                            process_terabox_link(1, Client, text, TRUE)
  \/ program = "qwen" /\ \E text \in Texts \ KeyTexts : other_message(Client, text)
  \/ program = "qwen" /\ \E resp \in ApiResponses : api_answered(1, resp)
  \/ program = "qwen" /\ status_edit_failed(1)
  \/ program = "qwen" /\ \E status_ok, edit_ok \in BOOLEAN, name \in Names :
                            origin_answered(1, status_ok, edit_ok, name)
  \/ program = "qwen" /\ \E edit_ok \in BOOLEAN :
                            progress_update(1, edit_ok)
  \/ program = "qwen" /\ \E why \in FetchErrors : fetch_failed(1, why)
  \/ program = "qwen" /\ fetch_completed(1)
  \/ program = "qwen" /\ send_failed(1)
  \/ program = "qwen" /\ pipeline_delivered(1, TRUE)
  \/ program = "blackbox" /\ \E text \in Texts \ KeyTexts :
                                bb_handle_message(1, Client, text)
  \/ program = "blackbox" /\ \E resp \in ApiResponses :
                                bb_api_answered(1, resp)
  \/ program = "blackbox" /\ \E status_ok \in BOOLEAN, name \in Names :
                                bb_origin_answered(1, status_ok, name)
  \/ program = "blackbox" /\ \E why \in FetchErrors :
                                bb_fetch_failed(1, why)
  \/ program = "blackbox" /\ bb_fetch_completed(1)
  \/ program = "blackbox" /\ bb_send_failed(1)
  \/ program = "blackbox" /\ bb_pipeline_delivered(1)
  \/ program = "blackbox" /\ reset_daily_downloads_job

SpecPipeline == InitPipeline /\ [][NextPipeline]_vars

\* Either script with one stored user and every admin command sent by the
\* administrator and by the client.
NextAdmin ==
  \/ Tick
  \/ program = "qwen" /\ \E c \in UserIds, d \in Durations :
                            generate_key_command(c, d, TRUE)
  \/ program = "qwen" /\ \E c \in UserIds : all_keys_command(c)
  \/ program = "qwen" /\ \E c \in UserIds, k \in Tokens :
                            delete_key_command(c, k, TRUE)
  \/ program = "qwen" /\ \E c \in UserIds : config_command(c)
  \/ program = "qwen" /\ \E c \in UserIds, n \in FreeLimits :
                            set_config_command(c, n, TRUE)
  \/ program = "qwen" /\ \E c \in UserIds, u \in UserIds :
                            user_stats_command(c, u, TRUE)
  \/ program = "blackbox" /\ \E c \in UserIds, text \in AdminTexts :
                                admin_set_welcome(c, text)
  \/ program = "blackbox" /\ \E c \in UserIds, text \in AdminTexts :
                                admin_set_subscription_text(c, text)
  \/ program = "blackbox" /\ \E c \in UserIds, text \in AdminTexts :
                                admin_set_contact_info(c, text)
  \/ program = "blackbox" /\ \E c \in UserIds, u \in UserIds, d \in SubscriptionDays :
                                admin_add_subscription(c, u, d)
  \/ program = "blackbox" /\ \E c \in UserIds : admin_stats(c)
  \/ program = "blackbox" /\ reset_daily_downloads_job

SpecAdmin == InitPipeline /\ [][NextAdmin]_vars

\* The first script with the two keys to redeem and one client, a write to
\* user_data.json or access_keys.json succeeding or failing with an I/O error.
NextFailingWrites ==
  \/ button_callback(Client)
  \/ \E text \in KeyTexts, kok, uok \in BOOLEAN :
       handle_access_key(Client, text, kok, uok)
  \/ \E text \in LinkTexts, uok \in BOOLEAN :
       process_terabox_link(1, Client, text, uok)
  \/ \E resp \in {a \in ApiResponses : a.kind \in {"video", "http_error"}
                                        /\ a.size = 0} :
       api_answered(1, resp)
  \/ origin_answered(1, TRUE, TRUE, PlainName)
  \/ fetch_completed(1)
  \/ \E uok \in BOOLEAN : pipeline_delivered(1, uok)

SpecFailingWrites == InitTwoKeys /\ [][NextFailingWrites]_vars

\* ------------------------------------------- the two scripts side by side
\* the quota decision of the blackbox handle_message (lines 168-180): the
\* expiry check, then daily_downloads against FREE_DAILY_LIMIT
bb_can_download(d, u, t) ==
  LET d0 == add_or_update_user(d, u)
      row == d0[u]
      expired == /\ row.is_paid
                 /\ row.subscription_expiry # None
                 /\ strptime_date(row.subscription_expiry) < t
      is_paid == row.is_paid /\ ~expired
  IN  [db |-> IF expired THEN update_user_subscription(d0, u, FALSE, None) ELSE d0,
       paid |-> is_paid,
       ret |-> is_paid \/ row.daily_downloads < FREE_DAILY_LIMIT]

\* what the quota check answered
Decision(allowed) == IF allowed THEN "Allowed" ELSE "Denied"

\* A link of u reaches both scripts at the same instant: can_download of the
\* first, the check of the second. The download goes on when both allow it.
both_request(u) ==
  LET I == update_user_info([users |-> users, file |-> users_file], u, TRUE)
      C == can_download([users |-> I.users, file |-> I.file], u, now,
                        load_config.free_limit, TRUE)
      B == bb_can_download(db, u, now)
  IN  /\ runs[1].stage = "idle"
      /\ ~reset_due
      /\ users' = C.users
      /\ users_file' = C.file
      /\ db' = B.db
      /\ runs' = [runs EXCEPT ![1] =
                    IF C.ret /\ B.ret
                    THEN [IdleRun EXCEPT !.stage = "delivering", !.user = u,
                                         !.day = now \div TicksPerDay,
                                         !.paid = B.paid]
                    ELSE IdleRun]
      /\ last' = [Obs("both_request", u, Decision(C.ret), 0, 0)
                    EXCEPT !.arg = [kind |-> Decision(B.ret), size |-> 0]]
      /\ UNCHANGED <<now, program, keys, keys_file, next_key, config, config_file,
                     awaiting_key, attempts, accepted, rejected, lifetime,
                     reset_due, admin_config, scratch, delivered_today>>

\* The file is delivered by both: increment_download_count and the stats of
\* the first script, increment_daily_download of the second.
both_delivered ==
  LET u == runs[1].user
      N == increment_download_count([users |-> users, file |-> users_file], u, now,
                                    "video", TRUE)
      G == get_user_stats([users |-> N.users, file |-> N.file], u, now,
                          load_config.free_limit, TRUE)
  IN  /\ runs[1].stage = "delivering"
      /\ users' = G.users
      /\ users_file' = G.file
      /\ db' = IF ~runs[1].paid THEN increment_daily_download(db, u) ELSE db
      /\ runs' = [runs EXCEPT ![1] = IdleRun]
      /\ last' = Obs("both_delivered", u, "done", 0, 0)
      /\ UNCHANGED <<now, program, keys, keys_file, next_key, config, config_file,
                     awaiting_key, attempts, accepted, rejected, lifetime,
                     reset_due, admin_config, scratch, delivered_today>>

\* Both stores hold the same free user: the same count, made today
InitBoth ==
  /\ now = 0
  /\ \E c \in 0..FREE_DAILY_LIMIT :
       /\ users = (Client :> [DefaultUser EXCEPT !.daily_downloads = c,
                                                 !.last_download_date = strftime_date(0)])
       /\ users_file = users
       /\ db = (Client :> [is_paid |-> FALSE, subscription_expiry |-> None,
                           daily_downloads |-> c])
  /\ keys = <<>>
  /\ keys_file = <<>>
  /\ next_key = 1
  /\ config = DefaultConfig(FREE_DAILY_LIMIT)
  /\ config_file = DefaultConfig(FREE_DAILY_LIMIT)
  /\ awaiting_key = [u \in UserIds |-> FALSE]
  /\ runs = [r \in Runs |-> IdleRun]
  /\ scratch = {}
  /\ delivered_today = [u \in UserIds |-> 0]
  /\ attempts = [k \in Tokens |-> 0]
  /\ accepted = [k \in Tokens |-> 0]
  /\ rejected = [k \in Tokens |-> 0]
  /\ lifetime = {}
  /\ program = "both"
  /\ reset_due = FALSE
  /\ admin_config = <<>>
  /\ last = Obs("init", 0, "", 0, 0)

\* The same links, deliveries and midnights for both scripts
NextBoth ==
  \/ Tick
  \/ both_request(Client)
  \/ both_delivered
  \/ reset_daily_downloads_job

SpecBoth == InitBoth /\ [][NextBoth]_vars

\* The videos delivered, told apart by their names
VideoInfos == {"video", "clip"}

\* The histories user_data.json may hold when the process starts: of a user
\* who never downloaded, and of one whose history is at the cap
StoredHistories ==
  {<<>>, [i \in 1..HistoryCap |-> [video_info |-> IF i = 1 THEN "oldest" ELSE "older"]]}

\* Init with user_data.json holding a record of the client with a history
InitHistory ==
  /\ now = 0
  /\ \E r \in PipelineUsers, h \in StoredHistories :
       /\ users = (Client :> [r EXCEPT !.download_history = h])
       /\ users_file = users
  /\ keys = <<>>
  /\ keys_file = <<>>
  /\ next_key = 1
  /\ config = DefaultConfig(DefaultFreeLimit)
  /\ config_file = DefaultConfig(DefaultFreeLimit)
  /\ awaiting_key = [u \in UserIds |-> FALSE]
  /\ runs = [r \in Runs |-> IdleRun]
  /\ scratch = {}
  /\ delivered_today = [u \in UserIds |-> 0]
  /\ attempts = [k \in Tokens |-> 0]
  /\ accepted = [k \in Tokens |-> 0]
  /\ rejected = [k \in Tokens |-> 0]
  /\ lifetime = {}
  /\ program = "qwen"
  /\ db = <<>>
  /\ reset_due = FALSE
  /\ admin_config = <<>>
  /\ last = Obs("init", 0, "", 0, 0)

\* The first script with one stored user whose links resolve, are fetched and
\* delivered, one run at a time, and the clock.
NextHistory ==
  \/ Tick
  \/ stats_command(Client, TRUE)
  \/ \E text \in LinkTexts : process_terabox_link(1, Client, text, TRUE)
  \/ \E resp \in ApiResponses : api_answered(1, resp)
  \/ origin_answered(1, TRUE, TRUE, PlainName)
  \/ fetch_completed(1)
  \/ send_failed(1)
  \/ \E video_info \in VideoInfos : pipeline_delivered_video(1, TRUE, video_info)

SpecHistory == InitHistory /\ [][NextHistory]_vars

\* the maximum sizes the administrator sets
SizeLimits == {DefaultSizeLimit - 1, DefaultSizeLimit}

\* The first script with one stored user sending links, one run at a time,
\* while the administrator sets the free limit and the maximum size.
NextConfig ==
  \/ Tick
  \/ \E text \in LinkTexts : process_terabox_link(1, Client, text, TRUE)
  \/ \E resp \in ApiResponses : api_answered(1, resp)
  \/ origin_answered(1, TRUE, TRUE, PlainName)
  \/ fetch_completed(1)
  \/ pipeline_delivered(1, TRUE)
  \/ \E n \in FreeLimits : set_config_key(ADMIN_USER_ID, "free_limit", n, TRUE)
  \/ \E n \in SizeLimits : set_config_key(ADMIN_USER_ID, "video_size_limit", n, TRUE)

\* Init of the first script with one stored user
InitConfig == InitPipeline /\ program = "qwen"

SpecConfig == InitConfig /\ [][NextConfig]_vars

\* what the resolver answers when a body with "url" may lack "size"
SizedOrUnsized ==
  ApiResponses \cup {[kind |-> "video_unsized", size |-> 0]}

\* the bytes the origin sends in all: none, or more than the default maximum
DeliveredBytes == {0, DefaultSizeLimit * BytesPerMB + 1}

\* The first script with one stored user sending links, one run at a time,
\* the resolver giving a size or none, the origin sending any number of
\* bytes, while the administrator sets the maximum size.
NextSize ==
  \/ Tick
  \/ \E text \in LinkTexts : process_terabox_link(1, Client, text, TRUE)
  \/ \E resp \in SizedOrUnsized : api_answered(1, resp)
  \/ origin_answered(1, TRUE, TRUE, PlainName)
  \/ \E delivered \in DeliveredBytes : fetch_completed_bytes(1, delivered)
  \/ pipeline_delivered(1, TRUE)
  \/ \E n \in SizeLimits : set_config_key(ADMIN_USER_ID, "video_size_limit", n, TRUE)

SpecSize == InitConfig /\ [][NextSize]_vars

\* the day counts /addsub is given: a grant that ends the day it is made, and
\* a grant of one day
GrantDays == {0, 1}

\* Either script started with a client who is free: the first script with the
\* two unused keys, the blackbox script with a row of any count.
InitLapse ==
  \/ InitTwoKeys
  \/ InitBlackbox /\ ~db[Client].is_paid

\* A client who downloads as a free user, is granted a timed subscription
\* (the key of one day redeemed, /addsub), downloads while paid and goes on
\* sending links after the subscription has ended.
NextLapse ==
  \/ Tick
  \/ program = "qwen" /\ button_callback(Client)
  \/ program = "qwen" /\ stats_command(Client, TRUE)
  \/ program = "qwen" /\ \E text \in {t \in Texts : t = [kind |-> "key", tok |-> 2]
                                                   \/ t.kind = "link"} :
                            handle_message(1, Client, text, TRUE, TRUE)
  \/ program = "qwen" /\ api_answered(1, [kind |-> "video", size |-> 0])
  \/ program = "qwen" /\ origin_answered(1, TRUE, TRUE, PlainName)
  \/ program = "qwen" /\ fetch_completed(1)
  \/ program = "qwen" /\ pipeline_delivered(1, TRUE)
  \/ program = "blackbox" /\ \E text \in LinkTexts : bb_handle_message(1, Client, text)
  \/ program = "blackbox" /\ bb_api_answered(1, [kind |-> "video", size |-> 0])
  \/ program = "blackbox" /\ bb_origin_answered(1, TRUE, PlainName)
  \/ program = "blackbox" /\ bb_fetch_completed(1)
  \/ program = "blackbox" /\ bb_pipeline_delivered(1)
  \/ program = "blackbox" /\ \E d \in GrantDays :
                                admin_add_subscription(ADMIN_USER_ID, Client, d)
  \/ program = "blackbox" /\ reset_daily_downloads_job

SpecLapse == InitLapse /\ [][NextLapse]_vars

\* The same with a text handled while earlier runs of the user are still
\* under way, for a user whose count is of today and a row below the limit.
InitInterleaved ==
  /\ InitPipeline
  /\ program = "qwen" => users[Client].last_download_date = <<0>>
  /\ program = "blackbox" => db[Client].daily_downloads < FREE_DAILY_LIMIT

NextInterleaved ==
  \/ Tick
  \/ program = "qwen" /\ \E r \in Runs, text \in Texts \ KeyTexts :
                            free_slot(r) /\ process_terabox_link(r, Client, text, TRUE)
  \/ program = "qwen" /\ \E text \in Texts \ KeyTexts : other_message(Client, text)
  \/ program = "qwen" /\ \E r \in Runs, resp \in ApiResponses : api_answered(r, resp)
  \/ program = "qwen" /\ \E r \in Runs : status_edit_failed(r)
  \/ program = "qwen" /\ \E r \in Runs, status_ok, edit_ok \in BOOLEAN :
                            origin_answered(r, status_ok, edit_ok, PlainName)
  \/ program = "qwen" /\ \E r \in Runs, edit_ok \in BOOLEAN :
                            progress_update(r, edit_ok)
  \/ program = "qwen" /\ \E r \in Runs, why \in FetchErrors : fetch_failed(r, why)
  \/ program = "qwen" /\ \E r \in Runs : fetch_completed(r)
  \/ program = "qwen" /\ \E r \in Runs : send_failed(r)
  \/ program = "qwen" /\ \E r \in Runs : pipeline_delivered(r, TRUE)
  \/ program = "blackbox" /\ \E r \in Runs, text \in Texts \ KeyTexts :
                                free_slot(r) /\ bb_handle_message(r, Client, text)
  \/ program = "blackbox" /\ \E r \in Runs, resp \in ApiResponses :
                                bb_api_answered(r, resp)
  \/ program = "blackbox" /\ \E r \in Runs, status_ok \in BOOLEAN :
                                bb_origin_answered(r, status_ok, PlainName)
  \/ program = "blackbox" /\ \E r \in Runs, why \in FetchErrors :
                                bb_fetch_failed(r, why)
  \/ program = "blackbox" /\ \E r \in Runs : bb_fetch_completed(r)
  \/ program = "blackbox" /\ \E r \in Runs : bb_send_failed(r)
  \/ program = "blackbox" /\ \E r \in Runs : bb_pipeline_delivered(r)
  \/ program = "blackbox" /\ reset_daily_downloads_job

SpecInterleaved == InitInterleaved /\ [][NextInterleaved]_vars

\* Either script with the two users sending links, their runs interleaved;
\* a run ends at the answer of the API, at the fetch or at the delivery.
NextTwoUsers ==
  \/ program = "qwen" /\ \E r \in Runs, u \in UserIds, text \in LinkTexts :
                            free_slot(r) /\ process_terabox_link(r, u, text, TRUE)
  \/ program = "qwen" /\ \E r \in Runs, resp \in ApiResponses : api_answered(r, resp)
  \/ program = "qwen" /\ \E r \in Runs : origin_answered(r, TRUE, TRUE, PlainName)
  \/ program = "qwen" /\ \E r \in Runs, why \in FetchErrors : fetch_failed(r, why)
  \/ program = "qwen" /\ \E r \in Runs : fetch_completed(r)
  \/ program = "qwen" /\ \E r \in Runs : send_failed(r)
  \/ program = "qwen" /\ \E r \in Runs : pipeline_delivered(r, TRUE)
  \/ program = "blackbox" /\ \E r \in Runs, u \in UserIds, text \in LinkTexts :
                                free_slot(r) /\ bb_handle_message(r, u, text)
  \/ program = "blackbox" /\ \E r \in Runs, resp \in ApiResponses :
                                bb_api_answered(r, resp)
  \/ program = "blackbox" /\ \E r \in Runs : bb_origin_answered(r, TRUE, PlainName)
  \/ program = "blackbox" /\ \E r \in Runs, why \in FetchErrors :
                                bb_fetch_failed(r, why)
  \/ program = "blackbox" /\ \E r \in Runs : bb_fetch_completed(r)
  \/ program = "blackbox" /\ \E r \in Runs : bb_send_failed(r)
  \/ program = "blackbox" /\ \E r \in Runs : bb_pipeline_delivered(r)

SpecTwoUsers == InitInterleaved /\ [][NextTwoUsers]_vars

\* Either script with the two users. The first script: both send links, one
\* run at a time, and read their stats, and one of them redeems the key of
\* one day. The blackbox script: both send links, one run at a time, and the
\* midnight job runs.
InitIsolation ==
  \/ InitTwoKeys /\ keys[1].duration_days = 0
  \/ InitInterleaved /\ program = "blackbox"

NextIsolation ==
  \/ Tick
  \/ program = "qwen" /\ button_callback(ADMIN_USER_ID)
  \/ program = "qwen" /\ handle_access_key(ADMIN_USER_ID, [kind |-> "key", tok |-> 2],
                                           TRUE, TRUE)
  \/ program = "qwen" /\ \E u \in UserIds : stats_command(u, TRUE)
  \/ program = "qwen" /\ \E u \in UserIds, text \in LinkTexts :
                            process_terabox_link(1, u, text, TRUE)
  \/ program = "qwen" /\ \E resp \in {a \in ApiResponses : a.kind = "video"
                                                            /\ a.size = 0} :
                            api_answered(1, resp)
  \/ program = "qwen" /\ origin_answered(1, TRUE, TRUE, PlainName)
  \/ program = "qwen" /\ fetch_completed(1)
  \/ program = "qwen" /\ pipeline_delivered(1, TRUE)
  \/ program = "blackbox" /\ \E u \in UserIds, text \in LinkTexts :
                                bb_handle_message(1, u, text)
  \/ program = "blackbox" /\ \E resp \in ApiResponses : bb_api_answered(1, resp)
  \/ program = "blackbox" /\ bb_origin_answered(1, TRUE, PlainName)
  \/ program = "blackbox" /\ bb_fetch_completed(1)
  \/ program = "blackbox" /\ bb_pipeline_delivered(1)
  \/ program = "blackbox" /\ reset_daily_downloads_job

SpecIsolation == InitIsolation /\ [][NextIsolation]_vars

\* ------------------------------------------------------------- claims
\* the entitlement fields of u in a users dict
Entitlement(us, u) ==
  <<get_user(us, u)[u].is_paid, get_user(us, u)[u].subscription_end>>

\* the subscription a key of d days grants when redeemed at instant t
GrantedEnd(t, d) == IF d > 0 THEN isoformat(t + d * TicksPerDay) ELSE None

\* C1: of N >= 2 redemption attempts on one registered token, exactly one is
\* accepted and the other N-1 are rejected.
C1_ExactlyOneAccepted ==
  \A k \in DOMAIN keys :
    attempts[k] >= 2 => accepted[k] = 1 /\ rejected[k] = attempts[k] - 1

\* C2: the step that marks a key used by u also gives u the grant of that key
\* (is_paid set, subscription_end set from the key's duration), and a user
\* whose record names a registered key as its access key is that key's user.
C2_MarkAndGrantAtomic ==
  [][/\ \A k \in DOMAIN keys \cap DOMAIN keys' :
          keys[k].used_by = None /\ keys'[k].used_by # None =>
            LET u == keys'[k].used_by[1] IN
              /\ u \in DOMAIN users'
              /\ users'[u].is_paid
              /\ users'[u].subscription_end = GrantedEnd(now, keys[k].duration_days)
      /\ \A w \in DOMAIN users', k2 \in DOMAIN keys' :
          users'[w].access_key_used = Some(k2) => keys'[k2].used_by = Some(w)
    ]_vars

\* C3: an attempt with an unknown or used token is rejected and changes no key
\* and no user's is_paid or subscription_end; a key's used_by, once set, stays
\* as it is while the key is registered.
C3_RejectedChangesNothing ==
  [][/\ ( /\ last'.op = "handle_access_key"
          /\ (last'.key \notin DOMAIN keys \/ keys[last'.key].used_by # None) )
        => /\ last'.ret = "rejected"
           /\ keys' = keys
           /\ \A u \in UserIds : Entitlement(users', u) = Entitlement(users, u)
      /\ \A k \in DOMAIN keys \cap DOMAIN keys' :
           keys[k].used_by # None =>
             /\ keys'[k].used_by = keys[k].used_by
             /\ keys'[k].used_at = keys[k].used_at
    ]_vars

\* a token used by another user was tried and rejected
C3_Witness ==
  /\ last.op = "handle_access_key"
  /\ last.ret = "rejected"
  /\ last.key \in DOMAIN keys
  /\ keys[last.key].used_by # None
  /\ keys[last.key].used_by # Some(last.user)

\* C4: an accepted redemption of a key of d days by u at instant now leaves u
\* with is_paid true and subscription_end = now + d days if d > 0, absent
\* otherwise, whatever u's subscription was before.
C4_AcceptedGrant ==
  [][(last'.op = "handle_access_key" /\ last'.ret = "accepted") =>
       /\ last'.key \in DOMAIN keys
       /\ last'.user \in DOMAIN users'
       /\ users'[last'.user].is_paid
       /\ users'[last'.user].subscription_end
            = GrantedEnd(now, keys[last'.key].duration_days)
    ]_vars

\* a second key was accepted from a user who had redeemed one before
C4_Witness ==
  /\ last.op = "handle_access_key"
  /\ last.ret = "accepted"
  /\ \E k \in DOMAIN keys : k # last.key /\ keys[k].used_by = Some(last.user)

\* C5: a user whose latest redeemed key was a lifetime key has no
\* subscription_end and is_paid_user answers true at every instant from now on.
C5_LifetimeStaysEntitled ==
  \A u \in lifetime :
    /\ u \in DOMAIN users
    /\ users[u].subscription_end = None
    /\ \A t \in now..MaxTime :
         is_paid_user([users |-> users, file |-> users_file], u, t, TRUE).ret

\* a lifetime subscriber on a later day, downloads delivered, stats just read
C5_Witness ==
  /\ Client \in lifetime
  /\ now >= TicksPerDay
  /\ users[Client].daily_downloads >= 1
  /\ last.op = "stats_command"

\* What an entitlement evaluation finds on the record of u in the state it
\* starts from: is_paid, the end of subscription as an instant (None if
\* absent), the download count and the day it was last reset on (None in the
\* blackbox script, which keeps no such day).
Found(u) ==
  IF program = "qwen"
    THEN LET r == get_user(users, u)[u] IN
         [is_paid |-> r.is_paid,
          end |-> IF r.subscription_end = None THEN None
                  ELSE Some(fromisoformat(r.subscription_end)),
          daily_downloads |-> r.daily_downloads,
          last_download_date |-> r.last_download_date]
    ELSE LET r == add_or_update_user(db, u)[u] IN
         [is_paid |-> r.is_paid,
          end |-> IF r.subscription_expiry = None THEN None
                  ELSE Some(strptime_date(r.subscription_expiry)),
          daily_downloads |-> r.daily_downloads,
          last_download_date |-> None]

\* the entitlement the specification defines: paid, and the end of
\* subscription absent or strictly later than now
Entitled(u) ==
  /\ Found(u).is_paid
  /\ (Found(u).end = None \/ now < Found(u).end[1])

\* the step is a handler that evaluated the entitlement of its user
Evaluates(l) ==
  \/ l.op \in {"stats_command", "process_terabox_link", "pipeline_delivered"}
  \/ l.op = "bb_handle_message" /\ l.ret # "not_http"

\* the step is a handler that ran the quota check (canDownload) for its user
ChecksQuota(l) ==
  \/ l.op = "process_terabox_link"
  \/ l.op = "bb_handle_message" /\ l.ret # "not_http"

\* the record of u shows the downgrade, in memory and in the store
Downgraded(us, file, d, u) ==
  IF program = "qwen"
    THEN /\ Entitlement(us, u) = <<FALSE, None>>
         /\ Entitlement(file, u) = <<FALSE, None>>
    ELSE /\ ~d[u].is_paid
         /\ d[u].subscription_expiry = None

\* C6: an entitlement evaluation answers true exactly when is_paid is true and
\* subscription_end is absent or strictly later than now; when now equals
\* subscription_end it answers false.
C6_EntitledIffStrictlyLater ==
  [][Evaluates(last') => (last'.paid <=> Entitled(last'.user))]_vars

\* C7: an evaluation that finds a paid user whose subscription_end is in the
\* past answers false and leaves the user downgraded in the store, written by
\* one downgrade write; an evaluation that finds the user not paid answers
\* false and writes no downgrade.
C7_DowngradeWrittenOnce ==
  [][Evaluates(last') =>
       LET f == Found(last'.user) IN
         /\ (f.is_paid /\ f.end # None /\ f.end[1] < now) =>
              /\ ~last'.paid
              /\ last'.dw = 1
              /\ Downgraded(users', users_file', db', last'.user)
         /\ ~f.is_paid => ~last'.paid /\ last'.dw = 0
         /\ last'.dw <= 1
    ]_vars

\* an evaluation found a subscription that had ended earlier and downgraded it
C7_Witness ==
  /\ Evaluates(last)
  /\ last.seen # None
  /\ last.seen[1] < now
  /\ last.dw = 1
  /\ ~last.paid

\* C8: the quota check allows an entitled user; a user who is not entitled it
\* allows exactly when daily_downloads, taken as 0 if the day changed since
\* last_download_date, is below the free limit, and otherwise it denies with
\* the daily-limit reason.
C8_QuotaDecision ==
  [][ChecksQuota(last') =>
       LET f == Found(last'.user)
           today == strftime_date(now)
           count == IF program = "qwen" /\ f.last_download_date # today
                      THEN 0 ELSE f.daily_downloads
           limit == IF program = "qwen" THEN load_config.free_limit
                    ELSE FREE_DAILY_LIMIT
           denied == last'.ret \in {"Daily limit reached", "daily limit"}
       IN  /\ last'.paid => ~denied
           /\ ~last'.paid => (denied <=> count >= limit)
    ]_vars

\* an entitled user whose count has reached the free limit was allowed
C8_Witness ==
  /\ last.op = "process_terabox_link"
  /\ last.paid
  /\ last.ret = "started"
  /\ users[last.user].daily_downloads >= load_config.free_limit
  /\ users[last.user].daily_downloads >= 1

\* C9: for every user, paid or not, after the quota check ran on a calendar
\* date different from last_download_date, daily_downloads is 0 and
\* last_download_date is that date.
C9_ResetForEveryUser ==
  [][(last'.op = "process_terabox_link"
        /\ Found(last'.user).last_download_date # strftime_date(now)) =>
       /\ users'[last'.user].daily_downloads = 0
       /\ users'[last'.user].last_download_date = strftime_date(now)
    ]_vars

\* C10: when the quota check resets daily_downloads on a new calendar date,
\* user_data.json holds daily_downloads = 0 and the new last_download_date as
\* soon as the check has returned.
C10_ResetPersisted ==
  [][(last'.op = "process_terabox_link"
        /\ ~last'.paid
        /\ Found(last'.user).last_download_date # strftime_date(now)) =>
       /\ last'.user \in DOMAIN users_file'
       /\ users_file'[last'.user].daily_downloads = 0
       /\ users_file'[last'.user].last_download_date = strftime_date(now)
    ]_vars

\* ------------------------------------------------- the download pipeline
\* the free limit in force: free_limit of bot_config.json, FREE_DAILY_LIMIT
FreeLimit == IF program = "qwen" THEN load_config.free_limit ELSE FREE_DAILY_LIMIT

\* the step is the entry of a link: the handler of a text the script takes
\* for a link, up to its quota decision
LinkEntry(l) ==
  \/ l.op = "process_terabox_link"
  \/ l.op = "bb_handle_message" /\ l.ret # "not_http"

\* the answer of the entry is the quota-exceeded message
QuotaExceeded(l) == l.ret \in {"Daily limit reached", "daily limit"}

Delivers(l) == l.op \in {"pipeline_delivered", "bb_pipeline_delivered"}

\* daily_downloads of u in the store the script reads
Count(us, d, u) ==
  IF program = "qwen" THEN get_user(us, u)[u].daily_downloads
  ELSE add_or_update_user(d, u)[u].daily_downloads

RunStep(l) == l.run # 0 /\ ~LinkEntry(l)

\* download_history of u (the blackbox script keeps none)
History(us, u) ==
  IF program = "qwen" THEN get_user(us, u)[u].download_history ELSE <<>>

\* C13: the commit (the count, the history record) happens in the step that
\* follows the delivery and nowhere else in a run: every step of a run after
\* its entry that is not the delivery leaves the stored users as the
\* entitlement check left them, whether the run goes on or ends in a failure;
\* the delivery step counts once and appends one record, the count of the
\* blackbox script being that of free users only.
C13_CommitOnlyAfterDelivery ==
  [][RunStep(last') =>
       LET u == last'.user IN
       IF Delivers(last')
         THEN /\ Count(users', db', u) =
                   Count(users, db, u)
                     + (IF program = "blackbox" /\ runs[last'.run].paid THEN 0 ELSE 1)
              /\ program = "qwen" =>
                   History(users', u)
                     = last_entries(Append(History(users, u), [video_info |-> "video"]))
         ELSE /\ users' = users
              /\ users_file' = users_file
              /\ db' = db]_vars

\* C13 witness: a user who had a file delivered today, and counted, has a run
\* that just failed at the delivery
C13_Witness ==
  /\ last.op \in {"send_failed", "bb_send_failed"}
  /\ delivered_today[last.user] > 0
  /\ Count(users, db, last.user) > 0

\* the step is the handling of the answer of the resolution API
ApiAnswer(l) == l.op \in {"api_answered", "bb_api_answered"}

\* C14: when the resolver reports a size above the configured maximum, the run
\* ends with the too-large failure: no request goes to the origin and no
\* scratch file is created.
C14_TooLargeNoFetch ==
  [][(/\ ApiAnswer(last')
      /\ last'.arg.kind = "video"
      /\ last'.arg.size > load_config.video_size_limit * BytesPerMB)
     => (/\ last'.ret = "too_large"
         /\ runs'[last'.run].stage = "idle"
         /\ scratch' = scratch)]_vars

\* C15: after every run, delivered or failed at any stage, no scratch file of
\* that run remains: a run that is not under way has no scratch file.
C15_NoScratchLeft ==
  \A r \in Runs : runs[r].stage = "idle" => r \notin scratch

\* the entitlement state of u in the store the script reads
EntitlementState(us, d, u) ==
  IF program = "qwen" THEN entitlement_state(us, u) ELSE bb_entitlement_state(d, u)

\* the resolution API answered the run with a non-success status
ResolutionError(l) == ApiAnswer(l) /\ l.arg.kind = "http_error"

TextEntry(l) ==
  l.op \in {"process_terabox_link", "other_message", "bb_handle_message"}

\* the text holds no URL of an accepted Terabox domain: it names a domain
\* outside any URL, is a URL of another site, or neither
NoTeraboxUrl(l) == l.arg.kind \in {"domain", "http", "other"}

\* C17: a text holding no URL of an accepted Terabox domain is answered with
\* the invalid-link message and starts no run, so the resolution API is never
\* contacted for it.
C17_InvalidLinkNoNetwork ==
  [][(TextEntry(last') /\ NoTeraboxUrl(last'))
     => (/\ last'.ret \in {"send_link_please", "no_url", "not_http"}
         /\ runs' = runs)]_vars

\* the stage a stage may be followed by, "idle" standing for a run that ended
Successors(stage) ==
  CASE stage = "idle" -> {"resolving"}
    [] stage = "resolving" -> {"fetching", "idle"}
    [] stage = "fetching" -> {"writing", "idle"}
    [] stage = "writing" -> {"delivering", "idle"}
    [] stage = "delivering" -> {"idle"}

\* C18: a run moves through its stages only in the order resolve, size check,
\* fetch, deliver, done, a failure ending it: a run that fetches or delivers
\* has passed the size check, and every change of stage is to the next stage
\* or to the end of the run.
C18_StagesInOrder ==
  /\ [](\A r \in Runs :
          runs[r].stage \in {"fetching", "writing", "delivering"}
            => runs[r].size_checked)
  /\ [][\A r \in Runs :
          runs'[r].stage # runs[r].stage
            => runs'[r].stage \in Successors(runs[r].stage)]_vars

\* the fetch of a run was ended by a timeout
FetchTimedOut(l) ==
  l.op \in {"fetch_failed", "bb_fetch_failed"} /\ l.arg.kind = "timeout"

\* C19: the fetch is bounded by the configured download timeout: no fetch is
\* under way for longer than download_timeout, and a fetch ended by a timeout
\* is reported as the fetch-timeout failure with its partial file discarded.
C19_FetchBoundedByTimeout ==
  /\ [](\A r \in Runs :
          runs[r].stage \in {"fetching", "writing"}
            => now - runs[r].started <= load_config.download_timeout)
  /\ [][FetchTimedOut(last')
        => (last'.ret = "timed_out" /\ last'.run \notin scratch')]_vars

\* the step sent a progress update, the first one or a later one, and the
\* edit of the status message failed
ProgressEditFailed(l) ==
  \/ l.op = "origin_answered" /\ l.arg.kind = "first_edit_failed"
  \/ l.op = "progress_update" /\ l.arg.kind = "edit_failed"

\* C20: a progress update whose edit fails, the first one included, does not
\* abort the transfer: the fetch of the run goes on.
C20_ProgressFailureHarmless ==
  [][ProgressEditFailed(last') => runs'[last'.run].stage = "writing"]_vars

\* the step opened the scratch file of its run
Opened(l) == l.op \in {"origin_answered", "bb_origin_answered"} /\ l.ret = "writing"

\* C21: for every media name the resolver returns, the path the scratch file
\* is opened under holds only alphanumerics, space, dot, underscore and
\* hyphen: no separator of a name reaches the file system.
C21_PathSanitized ==
  [][Opened(last') => \A i \in 1..Len(last'.path) : kept(last'.path[i])]_vars

\* the error kind of the taxonomy a step ran into, "" for a step that ran
\* into none of them
ErrorKind(l) ==
  CASE TextEntry(l) /\ l.ret \in {"no_url", "send_link_please", "not_http"}
         -> "InvalidLink"
    [] LinkEntry(l) /\ QuotaExceeded(l) -> "QuotaExceeded"
    [] ApiAnswer(l) /\ l.arg.kind \in {"http_error", "no_url"} -> "ResolutionFailed"
    [] ApiAnswer(l) /\ l.arg.kind = "timeout" -> "ResolutionTimeout"
    [] ApiAnswer(l) /\ l.arg.kind = "video" /\ l.ret # "fetching" -> "TooLarge"
    [] l.op \in {"origin_answered", "bb_origin_answered"} /\ l.arg.kind = "http_error"
         -> "FetchFailed"
    [] l.op \in {"fetch_failed", "bb_fetch_failed"} /\ l.arg.kind = "connection_error"
         -> "FetchFailed"
    [] FetchTimedOut(l) -> "FetchTimeout"
    [] l.op \in {"send_failed", "bb_send_failed"} -> "DeliveryFailed"
    [] OTHER -> ""

\* the one error kind each message of the scripts stands for, going by its
\* wording
KindOfMessage(ret) ==
  CASE ret \in {"no_url", "send_link_please", "not_http"} -> "InvalidLink"
    [] ret \in {"Daily limit reached", "daily limit"} -> "QuotaExceeded"
    [] ret \in {"api_error", "no_download_url", "no_video_info"} -> "ResolutionFailed"
    [] ret = "timed_out" -> "ResolutionTimeout"
    [] ret = "too_large" -> "TooLarge"
    [] ret = "download_error" -> "FetchFailed"
    [] ret = "error" -> "DeliveryFailed"
    [] OTHER -> ""

\* C22: each error kind of the taxonomy is reported with a message no other
\* kind is reported with: a message tells the kind, a resolver timeout reads
\* differently from a resolver failure, a fetch timeout from a fetch failure.
C22_DistinctMessages ==
  [][ErrorKind(last') # "" => KindOfMessage(last'.ret) = ErrorKind(last')]_vars

\* The admin commands of the two scripts
AdminCommands ==
  {"generate_key_command", "all_keys_command", "delete_key_command",
   "config_command", "set_config_command", "user_stats_command",
   "admin_set_welcome", "admin_set_subscription_text", "admin_set_contact_info",
   "admin_add_subscription", "admin_stats"}

\* C23: an admin command sent by anybody but the administrator is answered
\* "not authorized" and nothing else: the key registry, the configuration and
\* the records of all users, in memory and stored, are what they were, and the
\* reply carries no key, no stored content and no entitlement.
C23_AdminOnly ==
  [][(last'.op \in AdminCommands /\ last'.user # ADMIN_USER_ID)
       => /\ last'.ret = "unauthorized"
          /\ UNCHANGED <<keys, keys_file, config, config_file, admin_config,
                         users, users_file, db>>
          /\ last'.shown = <<>>
          /\ last'.key = 0
          /\ last'.seen = None
          /\ ~last'.paid]_vars

\* C23: the client was refused the list of keys while the registry held a key
C23_Witness ==
  /\ last.op = "all_keys_command"
  /\ last.user # ADMIN_USER_ID
  /\ keys # <<>>

\* A token that was issued and is no longer registered
Deleted(ks, nk, k) == k < nk /\ k \notin DOMAIN ks

\* C24: /delete_key changes nothing but the key registry and its file: the
\* record of every user, the one who redeemed the key included, is what it
\* was; the token it deleted is out of the registry, stays out, and every
\* later attempt to redeem it is rejected and grants nothing.
C24_DeleteChangesRegistryOnly ==
  [][/\ last'.op = "delete_key_command"
          => /\ UNCHANGED <<now, users, users_file, next_key, config, config_file,
                            awaiting_key, lifetime, pipe_vars, blackbox_vars>>
             /\ \A u \in UserIds : Entitlement(users', u) = Entitlement(users, u)
             /\ last'.ret = "deleted" => Deleted(keys', next_key', last'.key)
     /\ \A k \in Tokens :
          Deleted(keys, next_key, k)
            => /\ Deleted(keys', next_key', k)
               /\ (last'.op = "handle_access_key" /\ last'.key = k)
                    => /\ last'.ret = "rejected"
                       /\ \A u \in UserIds :
                            Entitlement(users', u) = Entitlement(users, u)
    ]_vars

\* C24: a key was deleted after a user had redeemed it and is still entitled
C24_Witness ==
  /\ last.op = "delete_key_command"
  /\ last.ret = "deleted"
  /\ \E u \in DOMAIN users : /\ users[u].access_key_used = Some(last.key)
                             /\ users[u].is_paid

\* C25: download_history never holds more than HistoryCap entries, in memory
\* or stored; a delivery appends its record as the newest entry, keeps the
\* entries before it in their order and drops the oldest one when the history
\* was full; no other step changes a history.
C25_HistoryLastCommitted ==
  /\ [](\A u \in DOMAIN users : Len(users[u].download_history) <= HistoryCap)
  /\ [](\A u \in DOMAIN users_file :
           Len(users_file[u].download_history) <= HistoryCap)
  /\ [][IF last'.op = "pipeline_delivered"
          THEN LET u == last'.user
                   h == History(users, u)
                   h2 == History(users', u)
                   n == IF Len(h) < HistoryCap THEN Len(h) + 1 ELSE HistoryCap
               IN  /\ Len(h2) = n
                   /\ h2[n] = [video_info |-> last'.arg.kind]
                   /\ \A i \in 1..(n - 1) : h2[i] = h[Len(h) - (n - 1) + i]
                   /\ \A v \in UserIds \ {u} : History(users', v) = History(users, v)
          ELSE \A u \in UserIds : History(users', u) = History(users, u)]_vars

\* C25: a delivery to a user whose history was full has just evicted the
\* oldest record and appended its own
C25_Witness ==
  /\ last.op = "pipeline_delivered"
  /\ History(users, last.user) = <<[video_info |-> "older"], [video_info |-> "clip"]>>

\* the step is a configuration write the administrator was told succeeded
ConfigWrite(l) == l.op = "set_config_command" /\ l.ret = "updated"

\* C26: what a read of the configuration returns is, from the step of
\* /set_config on, the value that step wrote, until the next /set_config; the
\* quota check of a link decides with the free limit a read returns at that
\* moment and the size check with the maximum size a read returns at that
\* moment, so no check after a write uses the value from before it.
C26_WriteSeenByNextRead ==
  [][/\ ConfigWrite(last') =>
          /\ load_config'[last'.arg.kind] = last'.arg.size
          /\ \A k \in DOMAIN load_config \ {last'.arg.kind} :
               load_config'[k] = load_config[k]
     /\ ~ConfigWrite(last') => load_config' = load_config
     /\ (last'.op = "process_terabox_link" /\ ~last'.paid) =>
          LET f == Found(last'.user)
              count == IF f.last_download_date # strftime_date(now)
                         THEN 0 ELSE f.daily_downloads
          IN  QuotaExceeded(last') <=> count >= load_config.free_limit
     /\ (last'.op = "api_answered" /\ last'.arg.kind = "video") =>
          (last'.ret = "too_large"
            <=> last'.arg.size > load_config.video_size_limit * BytesPerMB)
    ]_vars

\* C26: a video of the default maximum size was refused as too large, the
\* maximum having been lowered since the start
C26_Witness ==
  /\ last.op = "api_answered"
  /\ last.ret = "too_large"
  /\ last.arg.size = DefaultSizeLimit * BytesPerMB

\* the stages in which a run waits for the network
NetworkStages == {"resolving", "fetching", "writing", "delivering"}

\* a link of user u can be taken up in slot r
CanEnter(r, u) ==
  IF program = "qwen"
    THEN ENABLED (\E text \in LinkTexts : process_terabox_link(r, u, text, TRUE))
    ELSE ENABLED (\E text \in LinkTexts : bb_handle_message(r, u, text))

\* the run in slot r can take its next step
CanStep(r) ==
  IF program = "qwen"
    THEN ENABLED (\/ \E resp \in ApiResponses : api_answered(r, resp)
                  \/ origin_answered(r, TRUE, TRUE, PlainName)
                  \/ \E why \in FetchErrors : fetch_failed(r, why)
                  \/ fetch_completed(r)
                  \/ send_failed(r)
                  \/ pipeline_delivered(r, TRUE))
    ELSE ENABLED (\/ \E resp \in ApiResponses : bb_api_answered(r, resp)
                  \/ bb_origin_answered(r, TRUE, PlainName)
                  \/ \E why \in FetchErrors : bb_fetch_failed(r, why)
                  \/ bb_fetch_completed(r)
                  \/ bb_send_failed(r)
                  \/ bb_pipeline_delivered(r))

\* C27: while a run of one user waits in a network stage, a link of another
\* user can be taken up in the free slot, and a run of another user that is
\* under way can take its next step.
C27_OthersNotBlocked ==
  \A r \in Runs :
    runs[r].stage \in NetworkStages =>
      \A q \in Runs \ {r} :
        IF runs[q].stage = "idle"
          THEN \A u \in UserIds \ {runs[r].user} : CanEnter(q, u)
          ELSE runs[q].user # runs[r].user => CanStep(q)

\* the step is a handler that changed a record or a key and called save_users
\* or save_keys for it: a delivery committed, a key redeemed
Saves(l) ==
  \/ l.op = "pipeline_delivered"
  \/ l.op = "handle_access_key" /\ l.ret = "accepted"

\* C28: after a handler that saved, whether the write went through or not, the
\* record of its user in memory is the one user_data.json holds and the key
\* registry in memory is the one access_keys.json holds: a change the file did
\* not take is not kept in memory either.
C28_FailedWriteNotApplied ==
  [][Saves(last') =>
       /\ last'.user \in DOMAIN users_file'
       /\ users'[last'.user] = users_file'[last'.user]
       /\ keys' = keys_file']_vars

\* C29: at every request of a free user the first script, which resets the
\* count on access when the date changed, and the blackbox script, which
\* resets all counts at midnight, take the same quota decision.
C29_LazyEqualsScheduled ==
  last.op = "both_request" => last.ret = last.arg.kind

\* the record the script decides on for u: the entry of user_manager.users
\* for the first script, the row of the users table for the blackbox script
Record(us, d, u) ==
  <<IF u \in DOMAIN us THEN Some(us[u]) ELSE None,
    IF u \in DOMAIN d THEN Some(d[u]) ELSE None>>

\* the record user_data.json holds for u
StoredRecord(file, u) == IF u \in DOMAIN file THEN Some(file[u]) ELSE None

\* the step is a request of a user: a link and the run it started, a stats
\* query, a key redemption
UserRequest(l) ==
  \/ l.op \in {"stats_command", "handle_access_key", "button_callback"}
  \/ LinkEntry(l)
  \/ RunStep(l)

\* C30: a step of a request of one user leaves the record of every other user
\* as it was; what the store holds for another user stays as it was or becomes
\* that user's own record; a step that changes the records of two users is
\* the scheduled reset of all counts.
C30_OtherUsersUntouched ==
  [][/\ UserRequest(last') =>
          \A v \in UserIds \ {last'.user} :
            /\ Record(users', db', v) = Record(users, db, v)
            /\ StoredRecord(users_file', v)
                 \in {StoredRecord(users_file, v), Record(users, db, v)[1]}
     /\ (\A v \in UserIds : Record(users', db', v) # Record(users, db, v))
          => last'.op = "reset_daily_downloads"]_vars

\* C30: the user who redeemed the key is paid while the client, who is free
\* and has a download counted, has just read the stats or sent a link
C30_Witness ==
  /\ last.op \in {"stats_command", "process_terabox_link"}
  /\ last.user = Client
  /\ ~last.paid
  /\ users[Client].daily_downloads > 0
  /\ ADMIN_USER_ID \in DOMAIN users
  /\ users[ADMIN_USER_ID].is_paid

\* C31: the size check of the first script rejects a resolved media exactly
\* when its size in bytes is strictly above the configured maximum in MB times
\* the bytes of one MB: a media of exactly the maximum goes on to the fetch, a
\* media without a size is never rejected, and nothing after the check rejects
\* a media as too large, however many bytes the origin delivers.
C31_RejectedIffAboveLimit ==
  [][/\ (last'.op = "api_answered" /\ last'.arg.kind \in VideoKinds) =>
          /\ last'.ret \in {"too_large", "fetching"}
          /\ last'.ret = "too_large"
               <=> (/\ last'.arg.kind = "video"
                    /\ last'.arg.size > load_config.video_size_limit * BytesPerMB)
          /\ last'.ret = "fetching" => runs'[1].stage = "fetching"
     /\ last'.ret = "too_large" => last'.op = "api_answered"
     /\ (last'.op = "fetch_completed" /\ runs[1].stage = "writing")
          => runs'[1].stage = "delivering"]_vars

\* C31: a media of exactly the configured maximum went on to the fetch
C31_Witness ==
  /\ last.op = "api_answered"
  /\ last.arg.kind = "video"
  /\ last.arg.size = load_config.video_size_limit * BytesPerMB
  /\ last.ret = "fetching"
  /\ runs[1].stage = "fetching"

\* the quota check of the step found a timed subscription of its user ended:
\* the record was paid with an end of subscription and the check answered
\* not entitled, so no check ran since the subscription ended
FoundLapsed(l) ==
  /\ ChecksQuota(l)
  /\ Found(l.user).is_paid
  /\ Found(l.user).end # None
  /\ ~l.paid

\* C32: the first quota check after a timed subscription has ended allows the
\* download whenever the free limit is at least 1, whatever the user
\* downloaded while paid and whatever the count was when the subscription was
\* granted.
C32_FirstCheckAfterLapseAllowed ==
  [][(FoundLapsed(last') /\ FreeLimit >= 1) => ~QuotaExceeded(last')]_vars

\* C33: a text is handled as a key attempt only when its sender pressed the
\* enter-key button since their last attempt: the button sets awaiting_key and
\* nothing else does, an attempt is made with awaiting_key set and leaves it
\* clear whatever its outcome, and a text handled as a link or as another
\* message finds it clear.
C33_OneAttemptPerButtonPress ==
  [][\A u \in UserIds :
       /\ (last'.op = "button_callback" /\ last'.user = u) => awaiting_key'[u]
       /\ (last'.op = "handle_access_key" /\ last'.user = u)
            => (awaiting_key[u] /\ ~awaiting_key'[u])
       /\ (last'.op \in {"process_terabox_link", "other_message"} /\ last'.user = u)
            => ~awaiting_key[u]
       /\ (awaiting_key'[u] /\ ~awaiting_key[u])
            => (last'.op = "button_callback" /\ last'.user = u)]_vars

====
